---- MODULE Spec2Model ----
(***************************************************************************)
(* Document extraction pipeline of the roofing-estimate platform.          *)
(*                                                                         *)
(* The model covers the persistent store (documents, jobs, insurance      *)
(* analyses, aerial reports, line items), the server actions that create   *)
(* and reset documents, and DocumentProcessor.processDocument.  A run of   *)
(* processDocument is cut at its accesses to the store: each action is a   *)
(* stretch of the run's local code (downloads, capability calls, pure      *)
(* computation) together with the one store access that ends it, so runs   *)
(* interleave at the store the way the event loop lets them.  A step that  *)
(* throws inside the try block is one action with the catch block's        *)
(* update.                                                                 *)
(*                                                                         *)
(* Conventions.  A nullable / optional value is a sequence of length at    *)
(* most one: None is null or undefined, Some(v) a present value.  A data   *)
(* argument of a store update is a record holding exactly the fields that  *)
(* are set; a field whose value is `undefined` in the source is left out,  *)
(* which is what the ORM does with it (the column is not touched).         *)
(* Timestamps (createdAt, processedAt) are not modelled.                   *)
(***************************************************************************)
EXTENDS Integers, Sequences, FiniteSets, Bags, TLC

(***************************************************************************)
(* Bounds of the model.                                                    *)
(***************************************************************************)
MaxDocs == 1
MaxJobs == 1
\* Number of invocations of processDocument in a behaviour.
MaxRuns == 2
\* Number of sub-extractor answers of one insurance extraction that differ
\* from the well-formed baseline answer.
MaxFaults == 1
\* Number of estimates generated.
MaxEstimates == 1

DocIds == 1..MaxDocs
JobIds == 1..MaxJobs
\* The executions of processDocument that can be in flight at a time.
RunIds == {"t1", "t2"}

None == <<>>
Some(v) == <<v>>
IsSome(o) == Len(o) = 1
Val(o) == o[1]

(***************************************************************************)
(* Organizations.  upload.ts and the job actions take the organization     *)
(* from getOrganizationId (always the development user's); documents.ts    *)
(* takes it from the session, which can belong to any organization.        *)
(***************************************************************************)
DevOrg == "dev-org-id"
Orgs == {DevOrg, "other-org"}

MimeTypes == {"application/pdf", "text/plain"}

(***************************************************************************)
(* Error messages.                                                         *)
(***************************************************************************)
ErrNotFound == "Document not found"
ErrDb == "Database error"
ErrRecordMissing == "Record to update not found"
ErrS3 == "No body in S3 response"
ErrOcr == "Mistral OCR failed"
ErrBedrock == "Bedrock request failed"
ErrJsonParse == "Unexpected token in JSON"
ErrReduceOfNull == "Cannot read properties of null (reading 'reduce')"

(***************************************************************************)
(* Free-form capability responses.  The text of a response is a sequence   *)
(* of tokens: an opening brace, a closing brace, prose, or "body" (a       *)
(* well-formed member list, whose meaning is the response's value).        *)
(***************************************************************************)
Contents ==
  { <<"prose">>,
    <<"{", "body", "}">>,
    <<"prose", "{", "body", "}", "prose">>,
    <<"{", "prose", "}">>,
    <<"{", "body", "}", "prose", "{", "body", "}">> }

\* Positions of a token in a text.
Positions(content, tok) == {i \in 1..Len(content) : content[i] = tok}

Min(S) == CHOOSE x \in S : \A y \in S : x <= y
Max(S) == CHOOSE x \in S : \A y \in S : x >= y

\* content.match(/\{[\s\S]*\}/): the span from the first opening brace to
\* the last closing brace after it (greedy), or no match.
JsonMatch(content) ==
  LET opens == Positions(content, "{")
      closes == Positions(content, "}")
  IN IF opens = {} \/ {c \in closes : c > Min(opens)} = {}
       THEN None
       ELSE Some(SubSeq(content, Min(opens), Max(closes)))

\* JSON.parse accepts the span when it is one object literal.
JsonValid(span) == span = <<"{", "body", "}">>

(***************************************************************************)
(* A capability call either fails in transport (send throws) or returns a  *)
(* text; `body` is the object the "body" token of the text denotes (NoBody *)
(* when the text has none).                                                *)
(***************************************************************************)
NoBody == [f \in {} |-> 0]

Responses(bodies) ==
  {[sendOk |-> TRUE, content |-> c,
    body |-> IF Positions(c, "body") = {} THEN NoBody ELSE b] :
     c \in Contents, b \in bodies}
    \cup {[sendOk |-> FALSE, content |-> <<>>, body |-> NoBody]}

\* What the shared "send, concatenate text blocks, match, JSON.parse"
\* sequence does with a response.
ParseStatus(resp) ==
  IF ~resp.sendOk THEN "sendError"
  ELSE LET m == JsonMatch(resp.content)
       IN IF ~IsSome(m) THEN "noMatch"
          ELSE IF JsonValid(Val(m)) THEN "parsed" ELSE "parseError"

Returned(v) == [threw |-> FALSE, value |-> v]
Threw(msg) == [threw |-> TRUE, err |-> msg]

\* An object literal with no members.
EmptyObj == [f \in {} |-> 0]

\* Object.assign(target, source)
Assign(target, source) ==
  [f \in DOMAIN target \cup DOMAIN source |->
     IF f \in DOMAIN source THEN source[f] ELSE target[f]]

\* obj.f || dflt for a number-valued member
NumOr(obj, f, dflt) == IF f \in DOMAIN obj /\ obj[f] # 0 THEN obj[f] ELSE dflt
\* obj.f || dflt for an object- or array-valued member
ObjOr(obj, f, dflt) == IF f \in DOMAIN obj THEN obj[f] ELSE dflt
\* !obj.f for a number-valued member
Falsy(obj, f) == f \notin DOMAIN obj \/ obj[f] = 0

(***************************************************************************)
(* Document classifier.  Confidence values are in units of 1/10000.        *)
(***************************************************************************)
ClassBodies ==
  { [type |-> "insurance_scope", subType |-> Some("state_farm")],
    [type |-> "aerial_report", subType |-> Some("eagleview")],
    [type |-> "other", subType |-> None] }

ClassAnswers == Responses(ClassBodies)

classifyDocument(resp) ==
  LET st == ParseStatus(resp)
  IN IF st = "sendError" THEN Threw(ErrBedrock)
     ELSE IF st = "parsed" THEN Returned(resp.body)
     ELSE IF st = "parseError" THEN Threw(ErrJsonParse)
     ELSE Returned([type |-> "other"])

(***************************************************************************)
(* Header / measurements extractor.                                        *)
(***************************************************************************)
HeaderBody1 ==
  [data |-> [insuranceCompany |-> Some("Acme Mutual"),
             claimNumber |-> Some("CLM-1")],
   measurements |-> [totalArea |-> 24],
   confidence |-> 9000]

HeaderBodies == {HeaderBody1}

HeaderDefault == [data |-> EmptyObj, measurements |-> EmptyObj, confidence |-> 5000]

extractHeaderData(resp) ==
  LET st == ParseStatus(resp)
  IN IF st = "sendError" THEN Threw(ErrBedrock)
     ELSE IF st = "parsed" THEN Returned(resp.body)
     ELSE IF st = "parseError" THEN Threw(ErrJsonParse)
     ELSE Returned(HeaderDefault)

(***************************************************************************)
(* Materials / financial extractor.                                        *)
(***************************************************************************)
LineItem1 == [category |-> "roof", description |-> "Remove shingles",
              quantity |-> 24, unit |-> "SQ", rcv |-> 9000]
Material1 == [category |-> "roof", description |-> "Laminated shingles",
              quantity |-> 24, unit |-> "SQ"]

MaterialsBody1 ==
  [materials |-> <<Material1>>,
   financialSummary |-> [totalRCV |-> 15000, totalACV |-> 12000],
   lineItems |-> <<LineItem1>>, confidence |-> 9000]

\* An answer without a totalRCV.
MaterialsBodyNoRCV ==
  [materials |-> <<Material1>>,
   financialSummary |-> [totalACV |-> 12000],
   lineItems |-> <<>>, confidence |-> 9000]

MaterialsBodies == {MaterialsBody1, MaterialsBodyNoRCV}

FinancialDefault == [totalRCV |-> 0, totalACV |-> 0]

MaterialsDefault ==
  [materials |-> <<>>,
   financialSummary |-> [data |-> FinancialDefault, confidence |-> 5000],
   lineItems |-> <<>>]

extractMaterialsAndFinancials(resp) ==
  LET st == ParseStatus(resp)
      parsed == resp.body
  IN IF st = "sendError" THEN Threw(ErrBedrock)
     ELSE IF st = "parsed" THEN
       Returned([materials |-> ObjOr(parsed, "materials", <<>>),
                 financialSummary |->
                   [data |-> ObjOr(parsed, "financialSummary", FinancialDefault),
                    confidence |-> NumOr(parsed, "confidence", 8000)],
                 lineItems |-> ObjOr(parsed, "lineItems", <<>>)])
     ELSE IF st = "parseError" THEN Threw(ErrJsonParse)
     ELSE Returned(MaterialsDefault)

(***************************************************************************)
(* Aerial report extractor.                                                *)
(***************************************************************************)
Slope1 == [pitch |-> "6:12", area |-> 2400, percentage |-> 100]
Structure1 == [name |-> "main", area |-> 2400]

AerialBodies ==
  { [provider |-> "eagleview", totalArea |-> 2400, totalPerimeter |-> 200,
     ridgeLength |-> 40, hipLength |-> 0, valleyLength |-> 0, eaveLength |-> 80,
     rakeLength |-> 60, slopes |-> <<Slope1>>, structures |-> <<Structure1>>,
     facetCount |-> 2, roofComplexity |-> "simple"],
    [provider |-> "eagleview", totalArea |-> 0, totalPerimeter |-> 200,
     ridgeLength |-> 40, hipLength |-> 0, valleyLength |-> 0, eaveLength |-> 80,
     rakeLength |-> 60, slopes |-> <<>>, structures |-> <<Structure1>>,
     facetCount |-> 2, roofComplexity |-> "simple"] }

AerialAnswers == Responses(AerialBodies)

AerialDefault(provider) ==
  [provider |-> IF IsSome(provider) THEN Val(provider) ELSE "other",
   totalArea |-> 0, totalPerimeter |-> 0, ridgeLength |-> 0, hipLength |-> 0,
   valleyLength |-> 0, eaveLength |-> 0, rakeLength |-> 0, slopes |-> <<>>,
   structures |-> <<>>, facetCount |-> 0, roofComplexity |-> "unknown"]

extractAerialData(resp, provider) ==
  LET st == ParseStatus(resp)
  IN IF st = "sendError" THEN Threw(ErrBedrock)
     ELSE IF st = "parsed" THEN Returned(resp.body)
     ELSE IF st = "parseError" THEN Threw(ErrJsonParse)
     ELSE Returned(AerialDefault(provider))

(***************************************************************************)
(* Pipe-jack extractor.                                                    *)
(***************************************************************************)
PipeCounters ==
  {"pf3n1", "pf14", "pf14_4", "pf14_5", "pf14_6", "pf14_8", "pfSplitBoot",
   "pfLead", "pfGooseNeckSmall", "pfGooseNeckLarge"}

\* The initial result object; pfOther is an array, or None when null.
PipeJackInitial ==
  [pf3n1 |-> 0, pf14 |-> 0, pf14_4 |-> 0, pf14_5 |-> 0, pf14_6 |-> 0,
   pf14_8 |-> 0, pfSplitBoot |-> 0, pfLead |-> 0, pfGooseNeckSmall |-> 0,
   pfGooseNeckLarge |-> 0, pfOther |-> Some(<<>>), totalCount |-> 0,
   confidence |-> 0, validationNotes |-> <<>>]

PipeBody1 ==
  [pf14 |-> 3, pfLead |-> 1, pfOther |-> Some(<<>>), confidence |-> 9000,
   validationNotes |-> <<>>]

\* An answer with "pfOther": null.
PipeBodyNullOther ==
  [pf14 |-> 3, pfLead |-> 1, pfOther |-> None, confidence |-> 9000,
   validationNotes |-> <<>>]

PipeBodies == {PipeBody1, PipeBodyNullOther}

PipeAIFallback ==
  [confidence |-> 5000,
   validationNotes |-> <<"AI extraction failed, using regex fallback">>]

\* extractWithAI of the pipe-jack extractor: every error inside the try
\* block is logged and replaced by the fallback.
pipeExtractWithAI(resp) ==
  IF ParseStatus(resp) = "parsed" THEN resp.body ELSE PipeAIFallback

RECURSIVE SumQuantity(_)
SumQuantity(items) ==
  IF items = <<>> THEN 0 ELSE Head(items).quantity + SumQuantity(Tail(items))

RECURSIVE SumFields(_, _)
SumFields(obj, fields) ==
  IF fields = {} THEN 0
  ELSE LET f == CHOOSE x \in fields : TRUE
       IN obj[f] + SumFields(obj, fields \ {f})

\* A variant of getExpectedPipeJackRange whose maximum is ceil(roofArea/300)
\* with no floor of 8.
getExpectedPipeJackRangeNoFloor(roofArea) ==
  [min |-> IF roofArea \div 1000 > 2 THEN roofArea \div 1000 ELSE 2,
   max |-> (roofArea + 299) \div 300]

getExpectedPipeJackRange(roofArea) ==
  [min |-> IF roofArea \div 1000 > 2 THEN roofArea \div 1000 ELSE 2,
   max |-> IF (roofArea + 299) \div 300 > 8 THEN (roofArea + 299) \div 300 ELSE 8]

\* A variant of pipeTotalCount that keeps the total the capability
\* reported.
pipeTotalCountReported(result) ==
  IF ~IsSome(result.pfOther) THEN Threw(ErrReduceOfNull)
  ELSE Returned(result)

\* extractPipeJacks, "Calculate total count"; pfOther.reduce throws when
\* pfOther is null.
pipeTotalCount(result) ==
  IF ~IsSome(result.pfOther) THEN Threw(ErrReduceOfNull)
  ELSE Returned([result EXCEPT
         !.totalCount = SumFields(result, PipeCounters)
                          + SumQuantity(Val(result.pfOther))])

\* A variant of pipeRangeCheck that adds the warnings and leaves the
\* confidence alone.
pipeRangeCheckNoPenalty(result, range) ==
  IF result.totalCount < range.min
    THEN [result EXCEPT
            !.validationNotes = Append(@, "Total pipe jacks is below expected minimum")]
  ELSE IF result.totalCount > range.max
    THEN [result EXCEPT
            !.validationNotes = Append(@, "Total pipe jacks exceeds expected maximum")]
  ELSE result

\* extractPipeJacks, "Validate against roof area if provided".
pipeRangeCheck(result, range) ==
  IF result.totalCount < range.min
    THEN [result EXCEPT
            !.validationNotes = Append(@, "Total pipe jacks is below expected minimum"),
            !.confidence = (@ * 8) \div 10]
  ELSE IF result.totalCount > range.max
    THEN [result EXCEPT
            !.validationNotes = Append(@, "Total pipe jacks exceeds expected maximum"),
            !.confidence = (@ * 9) \div 10]
  ELSE result

pipeValidate(counted, roofArea) ==
  IF counted.threw THEN counted
  ELSE IF IsSome(roofArea) /\ Val(roofArea) # 0
    THEN Returned(pipeRangeCheck(counted.value,
                                 getExpectedPipeJackRange(Val(roofArea))))
  ELSE counted

\* roofArea is None when the caller passes no hint.
extractPipeJacks(resp, roofArea) ==
  pipeValidate(pipeTotalCount(Assign(PipeJackInitial, pipeExtractWithAI(resp))),
               roofArea)

\* As validateAgainstAerial, with the warning also at exactly two pipe
\* jacks per structure.
validateAgainstAerialInclusive(extraction, aerialData) ==
  IF extraction.totalCount <= Len(aerialData.structures) * 2
    THEN [extraction EXCEPT
            !.validationNotes = Append(@, "pipe jacks for structures may be low"),
            !.confidence = (@ * 85) \div 100]
  ELSE extraction

\* validateAgainstAerial: at least 2 pipe jacks per structure of the aerial
\* report.
validateAgainstAerial(extraction, aerialData) ==
  IF extraction.totalCount < Len(aerialData.structures) * 2
    THEN [extraction EXCEPT
            !.validationNotes = Append(@, "pipe jacks for structures may be low"),
            !.confidence = (@ * 85) \div 100]
  ELSE extraction

(***************************************************************************)
(* Ventilation extractor.                                                  *)
(***************************************************************************)
VentInitial ==
  [vsTurtleVent |-> 0, vsRidgeVent |-> 0, vsIntakeVent |-> 0,
   vsOffRidgeVent |-> 0, vsBroan4 |-> 0, vsBroan6 |-> 0, vsPowerVent |-> 0,
   vsGableVent |-> 0, vsWhirlybird |-> 0, hvacVent |-> 0, vsOther |-> <<>>,
   totalExhaust |-> 0, totalIntake |-> 0, nfa |-> 0, confidence |-> 0,
   validationNotes |-> <<>>, isBalanced |-> FALSE]

VentBody1 ==
  [vsTurtleVent |-> 2, vsRidgeVent |-> 40, vsIntakeVent |-> 10,
   confidence |-> 9000, validationNotes |-> <<>>]

VentBodies == {VentBody1}

VentAIFallback ==
  [confidence |-> 5000,
   validationNotes |-> <<"AI extraction failed, using fallback">>]

ventExtractWithAI(resp) ==
  IF ParseStatus(resp) = "parsed" THEN resp.body ELSE VentAIFallback

\* The verdict and the notes checkVentilationBalance leaves on the result.
checkVentilationBalance(result) ==
  IF result.vsIntakeVent = 0 /\ result.totalExhaust > 0
    THEN [result EXCEPT
            !.validationNotes = Append(@, "No intake ventilation detected - verify soffit vents are included"),
            !.isBalanced = FALSE]
  ELSE IF result.vsRidgeVent > 0
    THEN [result EXCEPT !.isBalanced = TRUE]
  ELSE IF result.totalIntake > 0 /\ result.totalExhaust > 0
    THEN IF 2 * result.totalIntake < result.totalExhaust
            \/ result.totalIntake > 2 * result.totalExhaust
           THEN [result EXCEPT
                   !.validationNotes = Append(@, "Intake/exhaust ratio may indicate unbalanced ventilation"),
                   !.isBalanced = FALSE]
           ELSE [result EXCEPT !.isBalanced = TRUE]
  ELSE [result EXCEPT !.isBalanced = FALSE]

\* A variant of ventTotals that keeps the totals the capability reported.
ventTotalsReported(result) == result

\* extractVents, "Calculate totals" and "Calculate NFA".
ventTotals(result) ==
  [result EXCEPT
     !.totalExhaust = result.vsTurtleVent + result.vsOffRidgeVent
                        + result.vsBroan4 + result.vsBroan6
                        + result.vsPowerVent + result.vsWhirlybird,
     !.nfa = result.vsRidgeVent * 18 + result.vsTurtleVent * 50
               + result.vsBroan4 * 28 + result.vsBroan6 * 50]

\* A variant of ventNfaCheck that also lowers the confidence.
ventNfaCheckPenalising(result, roofArea) ==
  IF IsSome(roofArea) /\ Val(roofArea) # 0
       /\ result.nfa * 3000 < Val(roofArea) * 1152
    THEN [result EXCEPT
            !.validationNotes = Append(@, "Exhaust ventilation may be insufficient"),
            !.confidence = (@ * 85) \div 100]
    ELSE result

\* extractVents, "Validate against roof area if provided":
\* nfa < ((roofArea / 300) * 144) * 0.8, compared after clearing the
\* denominators.
ventNfaCheck(result, roofArea) ==
  IF IsSome(roofArea) /\ Val(roofArea) # 0
       /\ result.nfa * 3000 < Val(roofArea) * 1152
    THEN [result EXCEPT !.validationNotes =
            Append(@, "Exhaust ventilation may be insufficient")]
    ELSE result

\* extractVents, "Validate ridge vent against roof ridge length":
\* vsRidgeVent > ridgeLength * 1.1, compared after clearing the denominator.
ventRidgeCheck(result, ridgeLength) ==
  IF IsSome(ridgeLength) /\ Val(ridgeLength) # 0 /\ result.vsRidgeVent > 0
       /\ 10 * result.vsRidgeVent > 11 * Val(ridgeLength)
    THEN [result EXCEPT
            !.validationNotes = Append(@, "Ridge vent length exceeds ridge length"),
            !.confidence = (@ * 85) \div 100]
    ELSE result

\* ridgeLength and roofArea are None when the caller passes no hint.
extractVents(resp, ridgeLength, roofArea) ==
  Returned(checkVentilationBalance(
    ventRidgeCheck(
      ventNfaCheck(ventTotals(Assign(VentInitial, ventExtractWithAI(resp))),
                   roofArea),
      ridgeLength)))

(***************************************************************************)
(* Assembly of the insurance extraction, and the two validators.           *)
(***************************************************************************)
\* The part of extractInsuranceData after the join.
assembleInsurance(headerData, pipeJacks, vents, materialsAndFinancials) ==
  LET financialSummary == materialsAndFinancials.financialSummary
      sum == headerData.confidence + pipeJacks.confidence + vents.confidence
               + financialSummary.confidence
  IN [headerData |-> headerData.data,
      roofMeasurements |-> headerData.measurements,
      pipeJacks |-> pipeJacks,
      ventilation |-> vents,
      materials |-> materialsAndFinancials.materials,
      financialSummary |-> financialSummary.data,
      lineItems |-> materialsAndFinancials.lineItems,
      confidenceScores |->
        [header |-> headerData.confidence,
         pipeJacks |-> pipeJacks.confidence,
         ventilation |-> vents.confidence,
         materials |-> financialSummary.confidence,
         financial |-> financialSummary.confidence,
         overall |-> sum \div 4]]

\* A variant of validateInsuranceExtraction in which warnings block
\* validity.
validateInsuranceExtractionStrict(extraction) ==
  LET errors == IF Falsy(extraction.financialSummary, "totalRCV")
                  THEN <<"Missing total RCV value">> ELSE <<>>
      lowConf == IF extraction.confidenceScores.overall < 7000
                   THEN <<"Overall extraction confidence is low">> ELSE <<>>
      warnings == extraction.pipeJacks.validationNotes
                    \o extraction.ventilation.validationNotes \o lowConf
  IN [isValid |-> Len(errors) = 0 /\ Len(warnings) = 0, errors |-> errors,
      warnings |-> warnings, suggestions |-> <<>>]

validateInsuranceExtraction(extraction) ==
  LET errors == IF Falsy(extraction.financialSummary, "totalRCV")
                  THEN <<"Missing total RCV value">> ELSE <<>>
      lowConf == IF extraction.confidenceScores.overall < 7000
                   THEN <<"Overall extraction confidence is low">> ELSE <<>>
      warnings == extraction.pipeJacks.validationNotes
                    \o extraction.ventilation.validationNotes \o lowConf
  IN [isValid |-> Len(errors) = 0, errors |-> errors, warnings |-> warnings,
      suggestions |-> <<>>]

validateAerialExtraction(extraction) ==
  LET errors == IF Falsy(extraction, "totalArea")
                  THEN <<"Missing total roof area">> ELSE <<>>
      warnings == IF Len(extraction.slopes) = 0
                    THEN <<"No slope information extracted">> ELSE <<>>
  IN [isValid |-> Len(errors) = 0, errors |-> errors, warnings |-> warnings,
      suggestions |-> <<>>]

TrivialValidation ==
  [isValid |-> TRUE, errors |-> <<>>, warnings |-> <<>>, suggestions |-> <<>>]

(***************************************************************************)
(* State.                                                                  *)
(*   docs, jobs      the document and job tables, keyed by id              *)
(*   analyses        the insuranceAnalysis table (a bag of rows)           *)
(*   aerialReports   the aerialReport table (a bag of rows)                *)
(*   lineItems       the lineItem table (a bag of rows)                    *)
(*   docCount        number of document ids handed out so far              *)
(*   runs            the invocations of processDocument, with the position *)
(*                   and the local variables of each                       *)
(*   started         number of invocations of processDocument so far       *)
(*   call            the server action or extractor call under examination *)
(*                   (its name, its arguments and, once it has settled,    *)
(*                   its outcome); no call in the pipeline specification   *)
(*   estimates       the estimate table, keyed by id; the pipeline never   *)
(*                   touches it                                             *)
(***************************************************************************)
VARIABLES docs, jobs, analyses, aerialReports, lineItems, docCount, runs, started,
          call, estimates

vars == <<docs, jobs, analyses, aerialReports, lineItems, docCount, runs, started,
         call, estimates>>
store == <<docs, jobs, analyses, aerialReports, lineItems, docCount, started, call,
          estimates>>

SubExtractors == {"header", "pipeJacks", "vents", "materials"}

\* No call under examination.
NoCall == [op |-> "none", input |-> EmptyObj, output |-> None]

IdleRun ==
  [pc |-> "idle", documentId |-> 0, caller |-> "none", callerJob |-> 0,
   document |-> None, ocrResult |-> None, classification |-> None,
   extraction |-> None,
   validation |-> None, error |-> None, result |-> None,
   uploadResult |-> None]

Init ==
  /\ docs = [d \in {} |-> 0]
  /\ jobs = [j \in {} |-> 0]
  /\ analyses = EmptyBag
  /\ aerialReports = EmptyBag
  /\ lineItems = EmptyBag
  /\ docCount = 0
  /\ runs = [r \in RunIds |-> IdleRun]
  /\ started = 0
  /\ call = NoCall
  /\ estimates = [e \in {} |-> 0]

\* prisma.<table>.update({where: {id}, data}): sets exactly the members of data.
Update(table, id, data) == [table EXCEPT ![id] = Assign(@, data)]

\* A new row in a table keyed by id.
Insert(table, id, row) ==
  [k \in DOMAIN table \cup {id} |-> IF k = id THEN row ELSE table[k]]

\* prisma.<table>.delete({where: {id}})
Delete(table, id) == [k \in DOMAIN table \ {id} |-> table[k]]

AddRow(table, row) == table (+) SetToBag({row})

RECURSIVE AddRows(_, _)
AddRows(table, rows) ==
  IF rows = <<>> THEN table ELSE AddRows(AddRow(table, Head(rows)), Tail(rows))

IdleRuns == {r \in RunIds : runs[r].pc = "idle"}
CanStart == IdleRuns # {} /\ started < MaxRuns
FreeRun == CHOOSE r \in IdleRuns : TRUE

\* processDocument(documentId) is called: the run is at its first query.
StartRun(r, d, caller, j) ==
  [runs EXCEPT ![r] = [IdleRun EXCEPT !.pc = "load", !.documentId = d,
                                      !.caller = caller, !.callerJob = j]]

Step(r, pc) == [runs EXCEPT ![r].pc = pc]

\* A run that has left the body of processDocument keeps none of its locals.
Leave(r, pc) ==
  [IdleRun EXCEPT !.pc = pc, !.documentId = runs[r].documentId,
                  !.caller = runs[r].caller, !.callerJob = runs[r].callerJob]

\* processDocument rejects: an error thrown outside its try block, or inside
\* its catch block.  processDocumentAsync logs the error and is done;
\* createJobFromDocument goes on from it.
ToThrown(r, msg) ==
  [runs EXCEPT ![r] = IF runs[r].caller = "async" THEN IdleRun
                      ELSE [Leave(r, "thrown") EXCEPT !.error = Some(msg)]]

\* processDocument returns.  processDocumentAsync drops the result and is
\* done; createJobFromDocument goes on from it.
ToReturned(r, result) ==
  [runs EXCEPT ![r] = IF runs[r].caller = "async" THEN IdleRun
                      ELSE [Leave(r, "returned") EXCEPT !.result = Some(result)]]

(***************************************************************************)
(* Server actions.                                                         *)
(***************************************************************************)
NewDocument(org, j, mime, type, status) ==
  [organizationId |-> org, jobId |-> j, mimeType |-> mime, type |-> type,
   subType |-> None, processingStatus |-> status, processingError |-> None,
   ocrText |-> None, ocrProvider |-> None, ocrConfidence |-> None,
   extractedData |-> None, validationErrors |-> None]

\* createJob (job actions)
CreateJob ==
  /\ Cardinality(DOMAIN jobs) < MaxJobs
  /\ jobs' = Insert(jobs, Cardinality(DOMAIN jobs) + 1,
                    [organizationId |-> DevOrg, status |-> "draft",
                     customerName |-> "Customer", totalRCV |-> None,
                     totalACV |-> None, insuranceCompany |-> None,
                     claimNumber |-> None])
  /\ UNCHANGED <<docs, analyses, aerialReports, lineItems, docCount, runs, started, call, estimates>>

\* uploadDocument (documents.ts): the calls that get as far as creating the
\* document; the others throw before writing anything.
UploadDocument(org, j, mime) ==
  /\ j \in DOMAIN jobs
  /\ jobs[j].organizationId = org
  /\ docCount < MaxDocs
  /\ CanStart
  /\ docs' = Insert(docs, docCount + 1,
                    NewDocument(org, j, mime, "pending", "pending"))
  /\ docCount' = docCount + 1
  /\ runs' = StartRun(FreeRun, docCount + 1, "async", 0)
  /\ started' = started + 1
  /\ UNCHANGED <<jobs, analyses, aerialReports, lineItems, call, estimates>>

\* deleteDocument (documents.ts)
DeleteDocument(org, d) ==
  /\ d \in DOMAIN docs
  /\ docs[d].organizationId = org
  /\ docs' = Delete(docs, d)
  /\ UNCHANGED <<jobs, analyses, aerialReports, lineItems, docCount, runs, started, call, estimates>>

\* The data of the reset in reprocessDocument; extractedData is `undefined`.
ReprocessReset == [processingStatus |-> "pending", processingError |-> None]

\* reprocessDocument (documents.ts)
ReprocessDocument(org, d) ==
  /\ d \in DOMAIN docs
  /\ docs[d].organizationId = org
  /\ CanStart
  /\ docs' = Update(docs, d, ReprocessReset)
  /\ runs' = StartRun(FreeRun, d, "async", 0)
  /\ started' = started + 1
  /\ UNCHANGED <<jobs, analyses, aerialReports, lineItems, docCount, call, estimates>>

(***************************************************************************)
(* DocumentProcessor.processDocument.                                      *)
(*                                                                         *)
(* Steps that touch only the run's own locals (the download, the OCR and   *)
(* capability calls, assembling, validating, entering the catch block)     *)
(* commute with every step of every other run, so each action below is     *)
(* such a stretch of code together with the one store access that ends     *)
(* it.  A step that fails writes nothing, so it is taken together with     *)
(* the update of the catch block that follows it; recOk is the outcome of  *)
(* that update.                                                            *)
(***************************************************************************)
NotFoundResult(d) == [success |-> FALSE, documentId |-> d, error |-> ErrNotFound]
FailureResult(d, msg) == [success |-> FALSE, documentId |-> d, error |-> msg]
SuccessResult(d, type, extraction, validation) ==
  [success |-> TRUE, documentId |-> d, documentType |-> type,
   extraction |-> extraction, validation |-> validation]

FailureData(msg) == [processingStatus |-> "failed", processingError |-> Some(msg)]

\* The message a document update rejects with.
UpdateError(d) == IF d \in DOMAIN docs THEN ErrDb ELSE ErrRecordMissing

\* The catch block of processDocument: record the failure, then return the
\* failure result.  When the update rejects, processDocument rejects.
Catch(r, msg, recOk) ==
  LET d == runs[r].documentId
  IN IF d \in DOMAIN docs /\ recOk
       THEN /\ docs' = Update(docs, d, FailureData(msg))
            /\ runs' = ToReturned(r, FailureResult(d, msg))
       ELSE /\ docs' = docs
            /\ runs' = ToThrown(r, UpdateError(d))

\* A faulty variant of LoadDocument, without the early return: C7 does not
\* hold of it.
LoadDocumentUnchecked(r) ==
  LET d == runs[r].documentId
  IN /\ runs[r].pc = "load"
     /\ runs' = [runs EXCEPT ![r].pc = "mark",
                             ![r].document =
                               IF d \in DOMAIN docs
                                 THEN Some([jobId |-> docs[d].jobId,
                                            mimeType |-> docs[d].mimeType])
                                 ELSE None]
     /\ UNCHANGED store

\* findUnique, and the early return when there is no such document.
LoadDocument(r) ==
  LET d == runs[r].documentId
  IN /\ runs[r].pc = "load"
     /\ \E dbOk \in BOOLEAN :
          runs' = IF ~dbOk THEN ToThrown(r, ErrDb)
                  ELSE IF d \notin DOMAIN docs
                    THEN ToReturned(r, NotFoundResult(d))
                  ELSE [runs EXCEPT ![r].pc = "mark",
                                    ![r].document =
                                      Some([jobId |-> docs[d].jobId,
                                            mimeType |-> docs[d].mimeType])]
     /\ UNCHANGED store

\* The update to "processing", before the try block.
MarkProcessing(r) ==
  LET d == runs[r].documentId
  IN /\ runs[r].pc = "mark"
     /\ \E dbOk \in BOOLEAN :
          IF d \in DOMAIN docs /\ dbOk
            THEN /\ docs' = Update(docs, d, [processingStatus |-> "processing"])
                 /\ runs' = Step(r, "ocr")
            ELSE /\ docs' = docs
                 /\ runs' = ToThrown(r, UpdateError(d))
     /\ UNCHANGED <<jobs, analyses, aerialReports, lineItems, docCount, started, call, estimates>>

\* The text of a document is identified by the document.
performOCR(d, mimeType, ocrOk) ==
  IF mimeType = "application/pdf"
    THEN IF ocrOk
           THEN Returned([text |-> d, provider |-> "mistral", confidence |-> 9000])
           ELSE Threw(ErrOcr)
    ELSE Returned([text |-> d, provider |-> "direct", confidence |-> 10000])

\* The rest of step 1 once performOCR has settled with o: the update that
\* stores the OCR result.
StoreOCR(r, o, dbOk, recOk) ==
  LET d == runs[r].documentId
  IN IF o.threw THEN Catch(r, o.err, recOk)
     ELSE IF ~(d \in DOMAIN docs /\ dbOk) THEN Catch(r, UpdateError(d), recOk)
     ELSE /\ docs' = Update(docs, d,
                       [ocrText |-> Some(o.value.text),
                        ocrProvider |-> Some(o.value.provider),
                        ocrConfidence |-> Some(o.value.confidence)])
          /\ runs' = [runs EXCEPT ![r].pc = "classify",
                                  ![r].ocrResult = Some(o.value)]

\* Step 1: downloadFromS3, performOCR, and the update.
OcrStage(r) ==
  /\ runs[r].pc = "ocr"
  /\ \E s3Ok, ocrOk, dbOk, recOk \in BOOLEAN :
       IF ~s3Ok THEN Catch(r, ErrS3, recOk)
       ELSE StoreOCR(r, performOCR(runs[r].documentId,
                                   Val(runs[r].document).mimeType, ocrOk),
                     dbOk, recOk)
  /\ UNCHANGED <<jobs, analyses, aerialReports, lineItems, docCount, started, call, estimates>>

\* classification.subType as an optional value.
SubTypeOf(classification) ==
  IF "subType" \in DOMAIN classification THEN classification.subType ELSE None

\* The branch of step 3 a classification leads to.
BranchOf(classification) ==
  IF classification.type \in {"insurance_scope", "supplement"}
    THEN "extractInsurance"
  ELSE IF classification.type = "aerial_report" THEN "extractAerial"
  ELSE "final"

\* The rest of step 2 once classifyDocument has settled with o: the update
\* of type and subType (a subType that is `undefined` is not written), then
\* the branch on the type.  For the other types the empty extraction and
\* the trivial validation are built without any awaited call.
StoreClassification(r, o, dbOk, recOk) ==
  LET d == runs[r].documentId
  IN IF o.threw THEN Catch(r, o.err, recOk)
     ELSE IF ~(d \in DOMAIN docs /\ dbOk) THEN Catch(r, UpdateError(d), recOk)
     ELSE /\ docs' = Update(docs, d, o.value)
          /\ runs' = [runs EXCEPT
                        ![r].pc = BranchOf(o.value),
                        ![r].classification = Some(o.value),
                        ![r].extraction =
                          IF BranchOf(o.value) = "final" THEN Some(EmptyObj)
                                                         ELSE None,
                        ![r].validation =
                          IF BranchOf(o.value) = "final"
                            THEN Some(TrivialValidation) ELSE None]

\* Step 2: classifyDocument and the update.
ClassifyStage(r) ==
  /\ runs[r].pc = "classify"
  /\ \E resp \in ClassAnswers :
       \E o \in {classifyDocument(resp)} :
         \E dbOk, recOk \in BOOLEAN : StoreClassification(r, o, dbOk, recOk)
  /\ UNCHANGED <<jobs, analyses, aerialReports, lineItems, docCount, started, call, estimates>>

(***************************************************************************)
(* extractInsuranceData: Promise.all over the four sub-extractors.  It     *)
(* rejects with the rejection of the sub-extractor that rejects first (any *)
(* of those that reject), and otherwise assembles the extraction from the  *)
(* four values.                                                            *)
(***************************************************************************)
WellFormed(body) == [sendOk |-> TRUE, content |-> <<"{", "body", "}">>, body |-> body]

Baseline ==
  [header |-> WellFormed(HeaderBody1), pipeJacks |-> WellFormed(PipeBody1),
   vents |-> WellFormed(VentBody1), materials |-> WellFormed(MaterialsBody1)]

\* What each of the four capability calls may answer.
AnswersOf ==
  [header : Responses(HeaderBodies), pipeJacks : Responses(PipeBodies),
   vents : Responses(VentBodies), materials : Responses(MaterialsBodies)]

\* The answers to the four calls of one extraction.
InsuranceAnswers ==
  {a \in AnswersOf :
     Cardinality({k \in SubExtractors : a[k] # Baseline[k]}) <= MaxFaults}

\* What each of the four calls of extractInsuranceData settles with.  The
\* pipeline passes no roof-area or ridge-length hint.
SubOutcomes(answers) ==
  [header |-> extractHeaderData(answers.header),
   pipeJacks |-> extractPipeJacks(answers.pipeJacks, None),
   vents |-> extractVents(answers.vents, None, None),
   materials |-> extractMaterialsAndFinancials(answers.materials)]

Rejecting(outcomes) == {k \in SubExtractors : outcomes[k].threw}

\* The sub-extractors whose rejection may be the first: any that rejects.
Firsts(outcomes) ==
  IF Rejecting(outcomes) = {} THEN {"header"} ELSE Rejecting(outcomes)

\* Promise.all over the outcomes of the four calls, and the assembly.
joinAll(outcomes, first) ==
  IF Rejecting(outcomes) # {}
    THEN Threw(outcomes[first].err)
    ELSE Returned(assembleInsurance(outcomes.header.value,
                                    outcomes.pipeJacks.value,
                                    outcomes.vents.value,
                                    outcomes.materials.value))

\* `first` is the sub-extractor whose rejection arrives first.
extractInsuranceData(answers, first) == joinAll(SubOutcomes(answers), first)

AnalysisRow(jobId, documentId, extraction) ==
  [jobId |-> jobId, documentId |-> documentId, analysisType |-> "full",
   headerData |-> extraction.headerData,
   roofMeasurements |-> extraction.roofMeasurements,
   pipeJacks |-> extraction.pipeJacks,
   ventilation |-> extraction.ventilation,
   materials |-> extraction.materials,
   financialSummary |-> extraction.financialSummary,
   confidenceScores |-> extraction.confidenceScores]

\* The rest of step 3 on the insurance branch, once extractInsuranceData has
\* settled with o: validateInsuranceExtraction and the first write of
\* storeInsuranceAnalysis (the analysis row).
StoreAnalysis(r, o, dbOk, recOk) ==
  IF o.threw \/ ~dbOk
    THEN /\ Catch(r, IF o.threw THEN o.err ELSE ErrDb, recOk)
         /\ analyses' = analyses
    ELSE /\ analyses' = AddRow(analyses,
               AnalysisRow(Val(runs[r].document).jobId, runs[r].documentId,
                           o.value))
         /\ runs' = [runs EXCEPT
                       ![r].pc = "updateJob",
                       ![r].extraction = Some(o.value),
                       ![r].validation =
                         Some(validateInsuranceExtraction(o.value))]
         /\ docs' = docs

\* Step 3, insurance branch: extractInsuranceData, then the above.
InsuranceStage(r) ==
  /\ runs[r].pc = "extractInsurance"
  /\ \E answers \in InsuranceAnswers :
       \E first \in Firsts(SubOutcomes(answers)) :
         \E o \in {extractInsuranceData(answers, first)} :
           \E dbOk, recOk \in BOOLEAN : StoreAnalysis(r, o, dbOk, recOk)
  /\ UNCHANGED <<jobs, aerialReports, lineItems, docCount, started, call, estimates>>

\* The data of the job update: a member the extraction does not have is
\* `undefined`, and so is not part of the update.
JobRollup(extraction) ==
  LET fs == extraction.financialSummary
      hd == extraction.headerData
      amounts == [f \in {"totalRCV", "totalACV"} \cap DOMAIN fs |-> Some(fs[f])]
      names == [f \in {"insuranceCompany", "claimNumber"} \cap DOMAIN hd |-> hd[f]]
  IN Assign(amounts, names)

\* storeInsuranceAnalysis, second write: the job's financial rollup.
UpdateJob(r) ==
  LET e == Val(runs[r].extraction)
      j == Val(runs[r].document).jobId
  IN /\ runs[r].pc = "updateJob"
     /\ \E dbOk, recOk \in BOOLEAN :
          IF dbOk
            THEN /\ jobs' = Update(jobs, j, JobRollup(e))
                 /\ runs' = Step(r, IF Len(e.lineItems) > 0
                                      THEN "createLineItems" ELSE "final")
                 /\ docs' = docs
            ELSE /\ jobs' = jobs
                 /\ Catch(r, ErrDb, recOk)
     /\ UNCHANGED <<analyses, aerialReports, lineItems, docCount, started, call, estimates>>

LineItemRow(jobId, item) ==
  Assign([jobId |-> jobId, source |-> "insurance"], item)

RECURSIVE LineItemRows(_, _)
LineItemRows(jobId, items) ==
  IF items = <<>> THEN <<>>
  ELSE <<LineItemRow(jobId, Head(items))>> \o LineItemRows(jobId, Tail(items))

\* storeInsuranceAnalysis, third write: the line items, when there are any.
CreateLineItems(r) ==
  LET e == Val(runs[r].extraction)
      j == Val(runs[r].document).jobId
  IN /\ runs[r].pc = "createLineItems"
     /\ \E dbOk, recOk \in BOOLEAN :
          IF dbOk
            THEN /\ lineItems' = AddRows(lineItems, LineItemRows(j, e.lineItems))
                 /\ runs' = Step(r, "final")
                 /\ docs' = docs
            ELSE /\ lineItems' = lineItems
                 /\ Catch(r, ErrDb, recOk)
     /\ UNCHANGED <<jobs, analyses, aerialReports, docCount, started, call, estimates>>

AerialRow(jobId, documentId, extraction) ==
  Assign([jobId |-> jobId, documentId |-> documentId], extraction)

\* The rest of step 3 on the aerial branch, once extractAerialData has
\* settled with o: validateAerialExtraction and storeAerialReport.
StoreAerialReport(r, o, dbOk, recOk) ==
  IF o.threw \/ ~dbOk
    THEN /\ Catch(r, IF o.threw THEN o.err ELSE ErrDb, recOk)
         /\ aerialReports' = aerialReports
    ELSE /\ aerialReports' = AddRow(aerialReports,
               AerialRow(Val(runs[r].document).jobId, runs[r].documentId,
                         o.value))
         /\ runs' = [runs EXCEPT
                       ![r].pc = "final",
                       ![r].extraction = Some(o.value),
                       ![r].validation = Some(validateAerialExtraction(o.value))]
         /\ docs' = docs

\* Step 3, aerial branch: extractAerialData, then the above.
AerialStage(r) ==
  /\ runs[r].pc = "extractAerial"
  /\ \E resp \in AerialAnswers :
       \E o \in {extractAerialData(resp, SubTypeOf(Val(runs[r].classification)))} :
         \E dbOk, recOk \in BOOLEAN : StoreAerialReport(r, o, dbOk, recOk)
  /\ UNCHANGED <<jobs, analyses, lineItems, docCount, started, call, estimates>>

\* A faulty variant of FinalData, which fails a document whose validation
\* has errors: C6 does not hold of it.
FinalDataFailingInvalid(extraction, validation) ==
  IF Len(validation.errors) > 0
    THEN [processingStatus |-> "failed",
          processingError |-> Some(validation.errors[1])]
    ELSE [processingStatus |-> "completed", extractedData |-> Some(extraction)]

\* The data of the final update; validationErrors is `undefined` when the
\* validation has no errors.
FinalData(extraction, validation) ==
  Assign([processingStatus |-> "completed", extractedData |-> Some(extraction)],
         IF Len(validation.errors) > 0
           THEN [validationErrors |-> Some(validation)]
           ELSE EmptyObj)

\* Step 4: the final update and the success result.
FinalUpdate(r) ==
  LET e == Val(runs[r].extraction)
      v == Val(runs[r].validation)
      c == Val(runs[r].classification)
      d == runs[r].documentId
  IN /\ runs[r].pc = "final"
     /\ \E dbOk, recOk \in BOOLEAN :
          IF d \in DOMAIN docs /\ dbOk
            THEN /\ docs' = Update(docs, d, FinalData(e, v))
                 /\ runs' = ToReturned(r, SuccessResult(d, c.type, e, v))
            ELSE Catch(r, UpdateError(d), recOk)
     /\ UNCHANGED <<jobs, analyses, aerialReports, lineItems, docCount, started, call, estimates>>

(***************************************************************************)
(* createJobFromDocument (upload.ts).                                      *)
(***************************************************************************)
PlaceholderJob ==
  [organizationId |-> DevOrg, status |-> "analyzing",
   customerName |-> "Processing...", totalRCV |-> None, totalACV |-> None,
   insuranceCompany |-> None, claimNumber |-> None]

\* The call up to `await documentProcessor.processDocument(document.id)`.
CreateJobFromDocument(mime) ==
  LET j == Cardinality(DOMAIN jobs) + 1
  IN /\ Cardinality(DOMAIN jobs) < MaxJobs
     /\ docCount < MaxDocs
     /\ CanStart
     /\ jobs' = Insert(jobs, j, PlaceholderJob)
     /\ docs' = Insert(docs, docCount + 1,
                       NewDocument(DevOrg, j, mime, "insurance_scope", "processing"))
     /\ docCount' = docCount + 1
     /\ runs' = StartRun(FreeRun, docCount + 1, "createJob", j)
     /\ started' = started + 1
     /\ UNCHANGED <<analyses, aerialReports, lineItems, call, estimates>>

FailedJobData ==
  [status |-> "draft", customerName |-> "Processing Failed - Manual Entry Required"]

ManualEntryData == [status |-> "draft", customerName |-> "Manual Entry Required"]

\* The call when the upload to storage fails: the catch block marks the job.
CreateJobFromDocumentUploadFails(dbOk) ==
  LET j == Cardinality(DOMAIN jobs) + 1
  IN /\ Cardinality(DOMAIN jobs) < MaxJobs
     /\ jobs' = Insert(jobs, j, IF dbOk THEN Assign(PlaceholderJob, FailedJobData)
                                        ELSE PlaceholderJob)
     /\ UNCHANGED <<docs, analyses, aerialReports, lineItems, docCount, runs, started, call, estimates>>

\* obj?.f || dflt, for an optional object with optional string members
StrOr(obj, f, dflt) ==
  IF IsSome(obj) /\ f \in DOMAIN Val(obj) /\ IsSome(Val(obj)[f])
    THEN Val(obj)[f] ELSE dflt

\* The data of the update to "ready", computed from what processDocument
\* returned (read as the code reads it: members headerData and
\* financialSummary of the returned object).
ReadyData(extractedData) ==
  LET headerData == IF "headerData" \in DOMAIN extractedData
                      THEN Some(extractedData.headerData) ELSE None
      amounts ==
        IF "financialSummary" \in DOMAIN extractedData
          THEN [f \in {"totalRCV", "totalACV"}
                        \cap DOMAIN extractedData.financialSummary |->
                  Some(extractedData.financialSummary[f])]
          ELSE [totalRCV |-> None, totalACV |-> None]
  IN Assign([status |-> "ready",
             customerName |-> Val(StrOr(headerData, "customerName",
                                        Some("Unknown Customer"))),
             insuranceCompany |-> StrOr(headerData, "insuranceCompany", None),
             claimNumber |-> StrOr(headerData, "claimNumber", None)],
            amounts)

\* The rest of createJobFromDocument, once processDocument has settled.
\* dbOk is the outcome of the job update in the try block, dbOk2 of the one
\* in the catch block.  What the call returns is kept in uploadResult until
\* the answer has gone to the browser.
ResumeCreateJob(r) ==
  LET j == runs[r].callerJob
      done(res) == [runs EXCEPT ![r] = [Leave(r, "uploadReturned") EXCEPT
                                          !.uploadResult = Some(res)]]
  IN /\ runs[r].caller = "createJob"
     /\ runs[r].pc \in {"returned", "thrown"}
     /\ \E dbOk, dbOk2 \in BOOLEAN :
          IF runs[r].pc = "returned" /\ dbOk
            THEN /\ jobs' = Update(jobs, j,
                              IF IsSome(runs[r].result)
                                THEN ReadyData(Val(runs[r].result))
                                ELSE ManualEntryData)
                 /\ runs' = done([jobId |-> j, success |-> TRUE])
            ELSE IF dbOk2
              THEN /\ jobs' = Update(jobs, j, FailedJobData)
                   /\ runs' = done([jobId |-> j, success |-> FALSE])
              ELSE /\ jobs' = jobs
                   /\ runs' = [runs EXCEPT ![r] = Leave(r, "uploadThrown")]
     /\ UNCHANGED <<docs, analyses, aerialReports, lineItems, docCount, started, call, estimates>>

\* The server action has answered the browser.
UploadDone(r) ==
  /\ runs[r].pc \in {"uploadReturned", "uploadThrown"}
  /\ runs' = [runs EXCEPT ![r] = IdleRun]
  /\ UNCHANGED store

(***************************************************************************)
(* The system.                                                             *)
(***************************************************************************)
Next ==
  \/ CreateJob
  \/ \E org \in Orgs, j \in JobIds, mime \in MimeTypes : UploadDocument(org, j, mime)
  \/ \E org \in Orgs, d \in DocIds : DeleteDocument(org, d)
  \/ \E org \in Orgs, d \in DocIds : ReprocessDocument(org, d)
  \/ \E mime \in MimeTypes : CreateJobFromDocument(mime)
  \/ \E dbOk \in BOOLEAN : CreateJobFromDocumentUploadFails(dbOk)
  \/ \E r \in RunIds :
       \/ LoadDocument(r)
       \/ MarkProcessing(r)
       \/ OcrStage(r)
       \/ ClassifyStage(r)
       \/ InsuranceStage(r)
       \/ UpdateJob(r)
       \/ CreateLineItems(r)
       \/ AerialStage(r)
       \/ FinalUpdate(r)
       \/ ResumeCreateJob(r)
       \/ UploadDone(r)

Spec == Init /\ [][Next]_vars

(***************************************************************************)
(* The extractors and the insurance validator, called on their own.  A     *)
(* call is drawn in the initial state with its arguments; the one action   *)
(* of its operation settles it.  The store and the pipeline are idle.      *)
(***************************************************************************)
\* Parsed pipe-jack answers: totals of 1, 4, 8, 9 and 12, an answer that
\* reports a totalCount of its own, one with "pfOther": null, one with no
\* member at all.
PipeProbeBodies ==
  { PipeBody1,
    PipeBodyNullOther,
    EmptyObj,
    [pf3n1 |-> 1, confidence |-> 9000],
    [pf14 |-> 5, pf14_4 |-> 1,
     pfOther |-> Some(<<[type |-> "custom", quantity |-> 2]>>),
     totalCount |-> 99, confidence |-> 9000, validationNotes |-> <<"note">>],
    [pf14 |-> 9, confidence |-> 8000],
    [pf14 |-> 6, pfLead |-> 6, totalCount |-> 3, confidence |-> 9000] }

\* The roofArea hints: none, 0, and areas whose expected ranges are
\* [2, 8], [3, 11] and [12, 40].
RoofAreas == {None, Some(0), Some(2000), Some(3300), Some(12000)}

PipeCalls ==
  {[op |-> "extractPipeJacks", input |-> [resp |-> resp, roofArea |-> a],
    output |-> None] : resp \in Responses(PipeProbeBodies), a \in RoofAreas}

\* Parsed vent answers.
VentProbeBodies ==
  { VentBody1,
    EmptyObj,
    [vsTurtleVent |-> 2, vsRidgeVent |-> 40, vsIntakeVent |-> 0,
     confidence |-> 9000],
    [vsTurtleVent |-> 5, vsIntakeVent |-> 5, confidence |-> 9000],
    [vsTurtleVent |-> 5, vsIntakeVent |-> 5, totalIntake |-> 5,
     confidence |-> 9000],
    [vsTurtleVent |-> 10, vsIntakeVent |-> 3, totalIntake |-> 3,
     confidence |-> 9000],
    [vsRidgeVent |-> 64, vsOffRidgeVent |-> 1, vsBroan4 |-> 1, vsBroan6 |-> 1,
     vsPowerVent |-> 1, vsWhirlybird |-> 1, vsGableVent |-> 4,
     vsIntakeVent |-> 6, totalExhaust |-> 77, nfa |-> 9999,
     confidence |-> 9000],
    [vsRidgeVent |-> 64, confidence |-> 8000, validationNotes |-> <<"note">>] }

RidgeLengths == {None, Some(30)}
VentRoofAreas == {None, Some(3000)}

VentCalls ==
  {[op |-> "extractVents",
    input |-> [resp |-> resp, ridgeLength |-> l, roofArea |-> a],
    output |-> None] :
     resp \in Responses(VentProbeBodies), l \in RidgeLengths, a \in VentRoofAreas}

\* Insurance extractions, with the members validateInsuranceExtraction
\* reads.
ProbeExtractions ==
  [financialSummary : {[totalACV |-> 4000], [totalRCV |-> 0, totalACV |-> 0],
                       [totalRCV |-> 5000, totalACV |-> 4000]},
   pipeJacks : [validationNotes : {<<>>, <<"pipe note">>}],
   ventilation : [validationNotes : {<<>>, <<"vent note">>}],
   confidenceScores : [overall : {6999, 7000, 9500}]]

ValidateCalls ==
  {[op |-> "validateInsuranceExtraction", input |-> [extraction |-> e],
    output |-> None] : e \in ProbeExtractions}

\* The aerial data validateAgainstAerial is given: 0, 1, 2 or 5 structures.
ProbeStructures ==
  {[k \in 1..n |-> [name |-> "Structure", area |-> 1500]] : n \in {0, 1, 2, 5}}

\* validateAgainstAerial applied to the result of an extraction.
AerialCheckCalls ==
  {[op |-> "validateAgainstAerial",
    input |-> [resp |-> resp, roofArea |-> a,
               aerialData |-> [roofArea |-> 2000, structures |-> st]],
    output |-> None] :
     resp \in Responses(PipeProbeBodies), a \in RoofAreas,
     st \in ProbeStructures}

ToolInit ==
  /\ docs = [d \in {} |-> 0]
  /\ jobs = [j \in {} |-> 0]
  /\ analyses = EmptyBag
  /\ aerialReports = EmptyBag
  /\ lineItems = EmptyBag
  /\ docCount = 0
  /\ runs = [r \in RunIds |-> IdleRun]
  /\ started = 0
  /\ call \in PipeCalls \cup VentCalls \cup ValidateCalls \cup AerialCheckCalls
  /\ estimates = [e \in {} |-> 0]

Pending(op) == call.op = op /\ call.output = None

ExtractPipeJacksCall ==
  /\ Pending("extractPipeJacks")
  /\ call' = [call EXCEPT !.output =
                Some(extractPipeJacks(call.input.resp, call.input.roofArea))]
  /\ UNCHANGED <<docs, jobs, analyses, aerialReports, lineItems, docCount, runs,
                 started, estimates>>

ExtractVentsCall ==
  /\ Pending("extractVents")
  /\ call' = [call EXCEPT !.output =
                Some(extractVents(call.input.resp, call.input.ridgeLength,
                                  call.input.roofArea))]
  /\ UNCHANGED <<docs, jobs, analyses, aerialReports, lineItems, docCount, runs,
                 started, estimates>>

ValidateInsuranceCall ==
  /\ Pending("validateInsuranceExtraction")
  /\ call' = [call EXCEPT !.output =
                Some(Returned(validateInsuranceExtraction(call.input.extraction)))]
  /\ UNCHANGED <<docs, jobs, analyses, aerialReports, lineItems, docCount, runs,
                 started, estimates>>

\* extractPipeJacks, then validateAgainstAerial on the result it returned.
ValidateAgainstAerialCall ==
  /\ Pending("validateAgainstAerial")
  /\ \E extraction \in {extractPipeJacks(call.input.resp, call.input.roofArea)} :
        call' = [call EXCEPT !.output =
                   Some(IF extraction.threw THEN extraction
                        ELSE Returned(validateAgainstAerial(
                               extraction.value, call.input.aerialData)))]
  /\ UNCHANGED <<docs, jobs, analyses, aerialReports, lineItems, docCount, runs,
                 started, estimates>>

ToolNext ==
  \/ ExtractPipeJacksCall
  \/ ExtractVentsCall
  \/ ValidateInsuranceCall
  \/ ValidateAgainstAerialCall

ToolSpec == ToolInit /\ [][ToolNext]_vars

(***************************************************************************)
(* The server actions that look a record up, called by a member of any     *)
(* organization.  The call and its outcome are kept in `call`.  Runs of    *)
(* processDocument get as far as their first update.                       *)
(***************************************************************************)
ErrJobNotFound == "Job not found"
ErrEstimateNotFound == "Estimate not found"

EstimateIds == 1..MaxEstimates

\* The call of op by a member of org, naming the record id, has settled
\* with outcome o.
Reply(op, org, id, o) ==
  [op |-> op, input |-> [org |-> org, id |-> id], output |-> Some(o)]

\* findFirst({where: {id, organizationId}}) finds the row.
Owns(table, id, org) == id \in DOMAIN table /\ table[id].organizationId = org

\* getDocument (documents.ts)
GetDocument(org, d) ==
  /\ call' = Reply("getDocument", org, d,
                   IF Owns(docs, d, org)
                     THEN Returned([document |-> docs[d],
                                    job |-> jobs[docs[d].jobId]])
                     ELSE Threw(ErrNotFound))
  /\ UNCHANGED <<docs, jobs, analyses, aerialReports, lineItems, docCount, runs,
                 started, estimates>>

\* getDocumentDownloadUrl (documents.ts); the storage key of a document is
\* identified by the document.
GetDocumentDownloadUrl(org, d) ==
  /\ call' = Reply("getDocumentDownloadUrl", org, d,
                   IF Owns(docs, d, org) THEN Returned([urlOf |-> d])
                                         ELSE Threw(ErrNotFound))
  /\ UNCHANGED <<docs, jobs, analyses, aerialReports, lineItems, docCount, runs,
                 started, estimates>>

\* deleteDocument (documents.ts), the calls that throw included.
DeleteDocumentCall(org, d) ==
  /\ IF Owns(docs, d, org)
       THEN /\ docs' = Delete(docs, d)
            /\ call' = Reply("deleteDocument", org, d, Returned([success |-> TRUE]))
       ELSE /\ docs' = docs
            /\ call' = Reply("deleteDocument", org, d, Threw(ErrNotFound))
  /\ UNCHANGED <<jobs, analyses, aerialReports, lineItems, docCount, runs,
                 started, estimates>>

\* reprocessDocument (documents.ts), the calls that throw included.
ReprocessDocumentCall(org, d) ==
  /\ CanStart
  /\ IF Owns(docs, d, org)
       THEN /\ docs' = Update(docs, d, ReprocessReset)
            /\ runs' = StartRun(FreeRun, d, "async", 0)
            /\ started' = started + 1
            /\ call' = Reply("reprocessDocument", org, d, Returned([success |-> TRUE]))
       ELSE /\ UNCHANGED <<docs, runs, started>>
            /\ call' = Reply("reprocessDocument", org, d, Threw(ErrNotFound))
  /\ UNCHANGED <<jobs, analyses, aerialReports, lineItems, docCount, estimates>>

\* getJob (job actions): the organization is getOrganizationId's, whoever
\* calls.  The job comes with its documents, analyses, reports, line items
\* and estimates.
GetJob(org, j) ==
  /\ call' = Reply("getJob", org, j,
                   IF Owns(jobs, j, DevOrg)
                     THEN Returned([job |-> jobs[j],
                                    documents |-> {d \in DOMAIN docs : docs[d].jobId = j},
                                    estimates |-> {e \in DOMAIN estimates :
                                                     estimates[e].jobId = j}])
                     ELSE Threw(ErrJobNotFound))
  /\ UNCHANGED <<docs, jobs, analyses, aerialReports, lineItems, docCount, runs,
                 started, estimates>>

EstimateTypes == {"consumer", "contractor"}

\* generateEstimate (estimates.ts); the amounts of an estimate are not
\* modelled.
GenerateEstimate(org, j, type) ==
  LET e == Cardinality(DOMAIN estimates) + 1
  IN /\ Cardinality(DOMAIN estimates) < MaxEstimates
     /\ IF Owns(jobs, j, org)
          THEN /\ estimates' = Insert(estimates, e,
                                 [jobId |-> j, type |-> type, status |-> "draft"])
               /\ call' = Reply("generateEstimate", org, j,
                                Returned([estimate |-> e, jobId |-> j]))
          ELSE /\ estimates' = estimates
               /\ call' = Reply("generateEstimate", org, j, Threw(ErrJobNotFound))
     /\ UNCHANGED <<docs, jobs, analyses, aerialReports, lineItems, docCount, runs,
                    started>>

\* The check after findFirst({where: {id: estimateId}, include: {job}}).
OwnsEstimate(e, org) ==
  e \in DOMAIN estimates /\ jobs[estimates[e].jobId].organizationId = org

\* getEstimate (estimates.ts)
GetEstimate(org, e) ==
  /\ call' = Reply("getEstimate", org, e,
                   IF OwnsEstimate(e, org)
                     THEN Returned([estimate |-> estimates[e],
                                    job |-> jobs[estimates[e].jobId]])
                     ELSE Threw(ErrEstimateNotFound))
  /\ UNCHANGED <<docs, jobs, analyses, aerialReports, lineItems, docCount, runs,
                 started, estimates>>

\* updateEstimateStatus (estimates.ts)
UpdateEstimateStatus(org, e, status) ==
  /\ IF OwnsEstimate(e, org)
       THEN /\ estimates' = Update(estimates, e, [status |-> status])
            /\ call' = Reply("updateEstimateStatus", org, e,
                             Returned([estimate |-> Assign(estimates[e],
                                                           [status |-> status])]))
       ELSE /\ estimates' = estimates
            /\ call' = Reply("updateEstimateStatus", org, e,
                             Threw(ErrEstimateNotFound))
  /\ UNCHANGED <<docs, jobs, analyses, aerialReports, lineItems, docCount, runs,
                 started>>

\* deleteEstimate (estimates.ts)
DeleteEstimate(org, e) ==
  /\ IF OwnsEstimate(e, org)
       THEN /\ estimates' = Delete(estimates, e)
            /\ call' = Reply("deleteEstimate", org, e, Returned([success |-> TRUE]))
       ELSE /\ estimates' = estimates
            /\ call' = Reply("deleteEstimate", org, e, Threw(ErrEstimateNotFound))
  /\ UNCHANGED <<docs, jobs, analyses, aerialReports, lineItems, docCount, runs,
                 started>>

\* createJobFromDocument (upload.ts) called by a member of org, up to
\* `await documentProcessor.processDocument(document.id)`: the job and the
\* document are created in getOrganizationId's organization, whoever calls.
\* The call is pending while processDocument runs.
CreateJobFromDocumentCall(org, mime) ==
  LET j == Cardinality(DOMAIN jobs) + 1
  IN /\ Cardinality(DOMAIN jobs) < MaxJobs
     /\ docCount < MaxDocs
     /\ CanStart
     /\ jobs' = Insert(jobs, j, PlaceholderJob)
     /\ docs' = Insert(docs, docCount + 1,
                       NewDocument(DevOrg, j, mime, "insurance_scope", "processing"))
     /\ docCount' = docCount + 1
     /\ runs' = StartRun(FreeRun, docCount + 1, "createJob", j)
     /\ started' = started + 1
     /\ call' = [op |-> "createJobFromDocument",
                 input |-> [org |-> org, id |-> docCount + 1], output |-> None]
     /\ UNCHANGED <<analyses, aerialReports, lineItems, estimates>>

AccessNext ==
  \/ CreateJob
  \/ \E org \in Orgs, j \in JobIds, mime \in MimeTypes : UploadDocument(org, j, mime)
  \/ \E org \in Orgs, mime \in MimeTypes : CreateJobFromDocumentCall(org, mime)
  \/ \E org \in Orgs, d \in DocIds :
       \/ GetDocument(org, d)
       \/ GetDocumentDownloadUrl(org, d)
       \/ DeleteDocumentCall(org, d)
       \/ ReprocessDocumentCall(org, d)
  \/ \E org \in Orgs, j \in JobIds :
       \/ GetJob(org, j)
       \/ \E type \in EstimateTypes : GenerateEstimate(org, j, type)
  \/ \E org \in Orgs, e \in EstimateIds :
       \/ GetEstimate(org, e)
       \/ \E status \in {"sent", "accepted"} : UpdateEstimateStatus(org, e, status)
       \/ DeleteEstimate(org, e)
  \/ \E r \in RunIds : LoadDocument(r) \/ MarkProcessing(r)

AccessSpec == Init /\ [][AccessNext]_vars

(***************************************************************************)
(* Pricing calculator (calculator.ts).  Strings are TLA+ strings, read     *)
(* character by character.  Amounts of money are in cents; the amounts     *)
(* examined are whole dollars, so that the products with 0.6 and with      *)
(* 1 - laborMarkup are whole numbers of cents.  laborMarkup is in percent. *)
(***************************************************************************)
LowerTable ==
  [A |-> "a", B |-> "b", C |-> "c", D |-> "d", E |-> "e", F |-> "f",
   G |-> "g", H |-> "h", I |-> "i", J |-> "j", K |-> "k", L |-> "l",
   M |-> "m", N |-> "n", O |-> "o", P |-> "p", Q |-> "q", R |-> "r",
   S |-> "s", T |-> "t", U |-> "u", V |-> "v", W |-> "w", X |-> "x",
   Y |-> "y", Z |-> "z"]

RECURSIVE toLowerCase(_)
toLowerCase(s) ==
  IF s = "" THEN ""
  ELSE (IF SubSeq(s, 1, 1) \in DOMAIN LowerTable
          THEN LowerTable[SubSeq(s, 1, 1)] ELSE SubSeq(s, 1, 1))
       \o toLowerCase(SubSeq(s, 2, Len(s)))

\* s.includes(t)
includes(s, t) ==
  \E i \in 1..(Len(s) - Len(t) + 1) : SubSeq(s, i, i + Len(t) - 1) = t

\* s.split(/\s+/): cur is the word being read, inWs whether the previous
\* character was white space.
RECURSIVE splitWords(_, _, _)
splitWords(rest, cur, inWs) ==
  IF rest = "" THEN <<cur>>
  ELSE IF SubSeq(rest, 1, 1) = " "
         THEN (IF inWs THEN <<>> ELSE <<cur>>)
              \o splitWords(SubSeq(rest, 2, Len(rest)), "", TRUE)
         ELSE splitWords(SubSeq(rest, 2, Len(rest)),
                         cur \o SubSeq(rest, 1, 1), FALSE)

LABOR_INDICATORS ==
  {"labor", "install", "remove", "tear", "r&r", "replace", "repair", "detach",
   "reset"}

isLaborItem(item) ==
  \/ \E indicator \in LABOR_INDICATORS :
       includes(toLowerCase(item.description), indicator)
  \/ toLowerCase(item.unit) \in {"hr", "hour", "man-hour"}
  \/ toLowerCase(item.category) = "labor"

\* The number of words of the description that count for the product name.
RECURSIVE wordScore(_, _)
wordScore(descWords, productName) ==
  IF descWords = <<>> THEN 0
  ELSE (IF Len(Head(descWords)) > 2 /\ includes(productName, Head(descWords))
          THEN 1 ELSE 0)
       + wordScore(Tail(descWords), productName)

\* The score findBestProductMatch gives a product for an item.
matchScore(item, product) ==
  (IF toLowerCase(product.category) = toLowerCase(item.category) THEN 2 ELSE 0)
  + (IF /\ IsSome(item.subcategory) /\ Val(item.subcategory) # ""
        /\ IsSome(product.subcategory)
        /\ toLowerCase(Val(product.subcategory))
             = toLowerCase(Val(item.subcategory))
       THEN 3 ELSE 0)
  + wordScore(splitWords(toLowerCase(item.description), "", FALSE),
              toLowerCase(product.name))
  + (IF /\ IsSome(product.manufacturerSku) /\ Val(product.manufacturerSku) # ""
        /\ includes(toLowerCase(item.description),
                    toLowerCase(Val(product.manufacturerSku)))
       THEN 5 ELSE 0)

\* The loop of findBestProductMatch over the products left to examine.
RECURSIVE bestOf(_, _, _, _)
bestOf(item, products, bestMatch, bestScore) ==
  IF products = <<>> THEN [match |-> bestMatch, score |-> bestScore]
  ELSE IF matchScore(item, Head(products)) > bestScore
         THEN bestOf(item, Tail(products), Some(Head(products)),
                     matchScore(item, Head(products)))
         ELSE bestOf(item, Tail(products), bestMatch, bestScore)

\* As findBestProductMatch, accepting a best score of 2.
findBestProductMatchFrom2(item, products) ==
  IF bestOf(item, products, None, 0).score >= 2
    THEN bestOf(item, products, None, 0).match ELSE None

findBestProductMatch(item, products) ==
  IF bestOf(item, products, None, 0).score >= 3
    THEN bestOf(item, products, None, 0).match ELSE None

\* product.xPrice ? Number(product.xPrice) : null.  The schema that types
\* the price columns is not part of the source: with Decimal columns
\* (decimal = TRUE) a price is an object and is truthy whatever its value,
\* with Float columns it is a number and 0 is falsy.
priceOf(p, decimal) ==
  IF IsSome(p) /\ (decimal \/ Val(p) # 0) THEN p ELSE None

supplierList(product, decimal) ==
  << [name |-> "beacon", price |-> priceOf(product.beaconPrice, decimal),
      sku |-> product.beaconSku],
     [name |-> "srs", price |-> priceOf(product.srsPrice, decimal),
      sku |-> product.srsSku],
     [name |-> "abc", price |-> priceOf(product.abcPrice, decimal),
      sku |-> product.abcSku],
     [name |-> "gulf_eagle", price |-> priceOf(product.gulfEaglePrice, decimal),
      sku |-> product.gulfEagleSku] >>

\* The candidates: suppliers.filter(price !== null && enabled)
candidates(product, enabledSuppliers, decimal) ==
  SelectSeq(supplierList(product, decimal),
            LAMBDA s : IsSome(s.price) /\ s.name \in enabledSuppliers)

\* a.price || 999999
sortKey(s) == IF Val(s.price) # 0 THEN Val(s.price) ELSE 999999

\* suppliers.sort(by sortKey)[0]: the sort is stable, so the first of the
\* candidates with the least key.
lowestOf(suppliers) ==
  suppliers[Min({i \in 1..Len(suppliers) :
                   \A k \in 1..Len(suppliers) :
                      sortKey(suppliers[i]) <= sortKey(suppliers[k])})]

\* {unitPrice, supplier, sku: s.sku || undefined}
priceRecord(s) ==
  Assign([unitPrice |-> Val(s.price), supplier |-> s.name],
         IF IsSome(s.sku) /\ Val(s.sku) # "" THEN [sku |-> Val(s.sku)]
         ELSE EmptyObj)

getBestPrice(product, preference, enabledSuppliers, decimal) ==
  IF candidates(product, enabledSuppliers, decimal) = <<>> THEN None
  ELSE IF /\ preference # "" /\ preference # "lowest"
          /\ SelectSeq(candidates(product, enabledSuppliers, decimal),
                       LAMBDA s : s.name = preference) # <<>>
         THEN Some(priceRecord(Head(SelectSeq(
                      candidates(product, enabledSuppliers, decimal),
                      LAMBDA s : s.name = preference))))
         ELSE Some(priceRecord(
                      lowestOf(candidates(product, enabledSuppliers, decimal))))

\* Number(item.rcv): null becomes 0
rcvOf(item) == IF IsSome(item.rcv) THEN Val(item.rcv) ELSE 0

\* The members every priced item copies from its line item.
pricedBase(item) ==
  [id |-> item.id, category |-> item.category,
   description |-> item.description, quantity |-> item.quantity,
   unit |-> item.unit, rcv |-> rcvOf(item)]

\* The priced item of a material item with a product match; a member
\* whose value is undefined is absent.
matchedItem(item, match, pricing) ==
  Assign(Assign(pricedBase(item),
                [matched |-> TRUE, productId |-> match.id,
                 productName |-> match.name]),
         IF IsSome(pricing)
           THEN Assign(Val(pricing),
                       [totalPrice |-> Val(pricing).unitPrice * item.quantity])
           ELSE EmptyObj)

\* As unmatchedItem, with the whole RCV as the estimated cost.
unmatchedItemAtRCV(item) ==
  Assign(pricedBase(item), [matched |-> FALSE, totalPrice |-> rcvOf(item)])

\* The priced item of a material item without a product match.
unmatchedItem(item) ==
  Assign(pricedBase(item),
         [matched |-> FALSE, totalPrice |-> (rcvOf(item) * 60) \div 100])

priceMaterial(item, products, preferredSupplier, enabledSuppliers, decimal) ==
  IF IsSome(findBestProductMatch(item, products))
    THEN matchedItem(item, Val(findBestProductMatch(item, products)),
                     getBestPrice(Val(findBestProductMatch(item, products)),
                                  preferredSupplier, enabledSuppliers, decimal))
    ELSE unmatchedItem(item)

\* supplierConfiguration.findMany({organizationId, isEnabled: true}), as
\* the set of the supplier names
enabledSuppliersOf(configs, organizationId) ==
  {c.supplier : c \in {x \in configs : x.organizationId = organizationId
                                        /\ x.isEnabled}}

RECURSIVE priceEach(_, _, _, _, _)
priceEach(items, products, preferredSupplier, enabledSuppliers, decimal) ==
  IF items = <<>> THEN <<>>
  ELSE <<priceMaterial(Head(items), products, preferredSupplier,
                       enabledSuppliers, decimal)>>
       \o priceEach(Tail(items), products, preferredSupplier,
                    enabledSuppliers, decimal)

priceMaterials(items, organizationId, preferredSupplier, db) ==
  priceEach(items, SelectSeq(db.products, LAMBDA p : p.isActive),
            preferredSupplier,
            enabledSuppliersOf(db.configs, organizationId), db.decimal)

\* rcv * (1 - laborMarkup)
laborCost(item, laborMarkup) == (rcvOf(item) * (100 - laborMarkup)) \div 100

\* The priced item of a labor item.
laborItem(item, laborMarkup) ==
  Assign(pricedBase(item),
         [matched |-> TRUE, unitPrice |-> laborCost(item, laborMarkup),
          totalPrice |-> laborCost(item, laborMarkup), supplier |-> "labor"])

RECURSIVE laborEach(_, _)
laborEach(items, laborMarkup) ==
  IF items = <<>> THEN <<>>
  ELSE <<laborItem(Head(items), laborMarkup)>>
       \o laborEach(Tail(items), laborMarkup)

RECURSIVE sumLabor(_, _)
sumLabor(items, laborMarkup) ==
  IF items = <<>> THEN 0
  ELSE laborCost(Head(items), laborMarkup) + sumLabor(Tail(items), laborMarkup)

\* item.totalPrice || 0
totalPriceOr0(item) == IF "totalPrice" \in DOMAIN item THEN item.totalPrice ELSE 0

RECURSIVE sumTotalPrice(_)
sumTotalPrice(items) ==
  IF items = <<>> THEN 0
  ELSE totalPriceOr0(Head(items)) + sumTotalPrice(Tail(items))

RECURSIVE sumRCV(_)
sumRCV(items) ==
  IF items = <<>> THEN 0 ELSE rcvOf(Head(items)) + sumRCV(Tail(items))

\* The priced items that carry a supplier.
withSupplier(priced) ==
  SelectSeq(priced, LAMBDA i : "supplier" \in DOMAIN i /\ i.supplier # "")

\* supplierBreakdown: count and total per supplier of the priced materials.
breakdownOf(pricedMaterials) ==
  [s \in {i.supplier : i \in {withSupplier(pricedMaterials)[k] :
                                 k \in 1..Len(withSupplier(pricedMaterials))}} |->
     [count |-> Len(SelectSeq(withSupplier(pricedMaterials),
                              LAMBDA i : i.supplier = s)),
      total |-> sumTotalPrice(SelectSeq(withSupplier(pricedMaterials),
                                        LAMBDA i : i.supplier = s))]]

\* Object.entries(supplierBreakdown).sort(by total, descending)[0]?.[0] ||
\* "none": the entries are in the order in which the suppliers first
\* appear and the sort is stable.
primarySupplierOf(pricedMaterials, breakdown) ==
  IF DOMAIN breakdown = {} THEN "none"
  ELSE withSupplier(pricedMaterials)[
         Min({k \in 1..Len(withSupplier(pricedMaterials)) :
                \A s \in DOMAIN breakdown :
                   breakdown[withSupplier(pricedMaterials)[k].supplier].total
                     >= breakdown[s].total})].supplier

\* const {preferredSupplier = "lowest", laborMarkup = 0.35} = options
preferredSupplierOf(options) ==
  IF "preferredSupplier" \in DOMAIN options THEN options.preferredSupplier
  ELSE "lowest"
laborMarkupOf(options) ==
  IF "laborMarkup" \in DOMAIN options THEN options.laborMarkup ELSE 35

\* The result of calculateEstimate from the priced materials and the labor
\* items.
estimateResult(allItems, pricedMaterials, laborItems, laborMarkup) ==
  [items |-> pricedMaterials \o laborEach(laborItems, laborMarkup),
   totalMaterialCost |-> sumTotalPrice(pricedMaterials),
   totalLaborCost |-> sumLabor(laborItems, laborMarkup),
   profit |-> sumRCV(allItems)
                - (sumTotalPrice(pricedMaterials)
                   + sumLabor(laborItems, laborMarkup)),
   primarySupplier |->
     primarySupplierOf(pricedMaterials, breakdownOf(pricedMaterials)),
   supplierBreakdown |-> breakdownOf(pricedMaterials)]

calculateEstimate(allItems, organizationId, options, db) ==
  estimateResult(
    allItems,
    priceMaterials(SelectSeq(allItems, LAMBDA i : ~isLaborItem(i)),
                   organizationId, preferredSupplierOf(options), db),
    SelectSeq(allItems, isLaborItem),
    laborMarkupOf(options))

(***************************************************************************)
(* The pricing calculator called on line items, catalogs and supplier      *)
(* configurations.  The call and its outcome are kept in `call`.           *)
(***************************************************************************)
NoSkus == [beaconSku |-> None, srsSku |-> None, abcSku |-> None,
           gulfEagleSku |-> None]
NoPrices == [beaconPrice |-> None, srsPrice |-> None, abcPrice |-> None,
             gulfEaglePrice |-> None]

\* Catalog products: beacon at $10 and srs at $8; no price at all; a
\* manufacturer SKU and three prices; an inactive product.
PipeFlashing ==
  Assign(Assign(NoPrices, NoSkus),
         [id |-> "prod-1", name |-> "4-inch Pipe Flashing",
          category |-> "pipe_jack", subcategory |-> Some("pf14_4"),
          manufacturerSku |-> None, isActive |-> TRUE,
          beaconPrice |-> Some(1000), srsPrice |-> Some(800),
          beaconSku |-> Some("B-144")])
LeadBoot ==
  Assign(Assign(NoPrices, NoSkus),
         [id |-> "prod-2", name |-> "Lead Boot", category |-> "pipe_jack",
          subcategory |-> Some("pf_lead"), manufacturerSku |-> None,
          isActive |-> TRUE])
Shingles ==
  Assign(Assign(NoPrices, NoSkus),
         [id |-> "prod-3", name |-> "Timberline Laminated Shingles",
          category |-> "Shingles", subcategory |-> None,
          manufacturerSku |-> Some("HDZ-30"), isActive |-> TRUE,
          beaconPrice |-> Some(4000), abcPrice |-> Some(3500),
          gulfEaglePrice |-> Some(3500)])
RetiredFlashing ==
  Assign(PipeFlashing, [id |-> "prod-4", isActive |-> FALSE,
                        srsPrice |-> Some(100)])

Catalogs ==
  { <<>>, <<PipeFlashing>>, <<LeadBoot, PipeFlashing>>,
    <<PipeFlashing, LeadBoot, Shingles>>,
    <<RetiredFlashing, Shingles, LeadBoot>> }

\* Line items: materials that match on subcategory, on category alone, on
\* category and a word, on a manufacturer SKU, on nothing; labor by its
\* description, by its unit, by its category.
ProbeItems ==
  { [id |-> "li-1", category |-> "Pipe_Jack", subcategory |-> Some("PF14_4"),
     description |-> "4 inch pipe jack", quantity |-> 3, unit |-> "EA",
     rcv |-> Some(6000)],
    [id |-> "li-2", category |-> "pipe_jack", subcategory |-> None,
     description |-> "roof vent", quantity |-> 2, unit |-> "EA",
     rcv |-> Some(5000)],
    [id |-> "li-3", category |-> "pipe_jack", subcategory |-> None,
     description |-> "Roof  boot", quantity |-> 1, unit |-> "EA",
     rcv |-> None],
    [id |-> "li-4", category |-> "roofing", subcategory |-> Some(""),
     description |-> "GAF hdz-30 bundle", quantity |-> 24, unit |-> "BD",
     rcv |-> Some(200000)],
    [id |-> "li-5", category |-> "gutter", subcategory |-> None,
     description |-> "Gutter guard", quantity |-> 10, unit |-> "LF",
     rcv |-> Some(10000)],
    [id |-> "li-6", category |-> "roof", subcategory |-> None,
     description |-> "Remove shingles", quantity |-> 24, unit |-> "SQ",
     rcv |-> Some(90000)],
    [id |-> "li-7", category |-> "roof", subcategory |-> None,
     description |-> "Roofer", quantity |-> 8, unit |-> "HR",
     rcv |-> None],
    [id |-> "li-8", category |-> "Labor", subcategory |-> None,
     description |-> "Crew", quantity |-> 1, unit |-> "EA",
     rcv |-> Some(20000)] }

MatchCalls ==
  {[op |-> "findBestProductMatch", input |-> [item |-> i, products |-> c],
    output |-> None] : i \in ProbeItems, c \in Catalogs}

\* The prices of a product examined for getBestPrice: none, $0, $8, $10.
ProbePrices == {None, Some(0), Some(800), Some(1000)}

PricedProducts ==
  {Assign(PipeFlashing, [beaconPrice |-> b, srsPrice |-> s, abcPrice |-> a]) :
     b \in ProbePrices, s \in ProbePrices, a \in {None, Some(800)}}

Preferences == {"", "lowest", "beacon", "acme"}

EnabledSets == {{}, {"beacon"}, {"beacon", "srs"}, {"srs", "abc", "gulf_eagle"}}

PriceCalls ==
  {[op |-> "getBestPrice",
    input |-> [product |-> p, preference |-> pref, enabledSuppliers |-> en,
               decimal |-> dec],
    output |-> None] :
     p \in PricedProducts, pref \in Preferences, en \in EnabledSets,
     dec \in BOOLEAN}

\* The supplier configurations of two organizations.
ConfigSets ==
  { {},
    {[organizationId |-> DevOrg, supplier |-> "beacon", isEnabled |-> TRUE],
     [organizationId |-> DevOrg, supplier |-> "srs", isEnabled |-> TRUE],
     [organizationId |-> "other-org", supplier |-> "abc", isEnabled |-> TRUE]},
    {[organizationId |-> DevOrg, supplier |-> "beacon", isEnabled |-> TRUE],
     [organizationId |-> DevOrg, supplier |-> "srs", isEnabled |-> FALSE],
     [organizationId |-> DevOrg, supplier |-> "abc", isEnabled |-> TRUE]} }

EstimateOptions ==
  {EmptyObj, [preferredSupplier |-> "beacon", laborMarkup |-> 35],
   [laborMarkup |-> 50]}

\* The lists of line items examined: of at most two of the probe items.
ItemLists ==
  {<<>>} \cup {<<i>> : i \in ProbeItems}
         \cup {<<i, k>> : i \in ProbeItems, k \in ProbeItems}

EstimateCalls ==
  {[op |-> "calculateEstimate",
    input |-> [lineItems |-> l, organizationId |-> DevOrg, options |-> o,
               db |-> [products |-> c, configs |-> cf, decimal |-> TRUE]],
    output |-> None] :
     l \in ItemLists, o \in EstimateOptions,
     c \in {<<PipeFlashing, LeadBoot, Shingles>>,
            <<RetiredFlashing, Shingles, LeadBoot>>},
     cf \in ConfigSets}

PricingInit ==
  /\ docs = [d \in {} |-> 0]
  /\ jobs = [j \in {} |-> 0]
  /\ analyses = EmptyBag
  /\ aerialReports = EmptyBag
  /\ lineItems = EmptyBag
  /\ docCount = 0
  /\ runs = [r \in RunIds |-> IdleRun]
  /\ started = 0
  /\ call \in MatchCalls \cup PriceCalls \cup EstimateCalls
  /\ estimates = [e \in {} |-> 0]

FindBestProductMatchCall ==
  /\ Pending("findBestProductMatch")
  /\ call' = [call EXCEPT !.output =
                Some(findBestProductMatch(call.input.item, call.input.products))]
  /\ UNCHANGED <<docs, jobs, analyses, aerialReports, lineItems, docCount, runs,
                 started, estimates>>

GetBestPriceCall ==
  /\ Pending("getBestPrice")
  /\ call' = [call EXCEPT !.output =
                Some(getBestPrice(call.input.product, call.input.preference,
                                  call.input.enabledSuppliers,
                                  call.input.decimal))]
  /\ UNCHANGED <<docs, jobs, analyses, aerialReports, lineItems, docCount, runs,
                 started, estimates>>

CalculateEstimateCall ==
  /\ Pending("calculateEstimate")
  /\ call' = [call EXCEPT !.output =
                Some(calculateEstimate(call.input.lineItems,
                                       call.input.organizationId,
                                       call.input.options, call.input.db))]
  /\ UNCHANGED <<docs, jobs, analyses, aerialReports, lineItems, docCount, runs,
                 started, estimates>>

PricingNext ==
  FindBestProductMatchCall \/ GetBestPriceCall \/ CalculateEstimateCall

PricingSpec == PricingInit /\ [][PricingNext]_vars

(***************************************************************************)
(* Properties.                                                             *)
(***************************************************************************)
\* The positions inside the body of processDocument.
PipelinePcs ==
  {"load", "mark", "ocr", "classify", "extractInsurance", "extractAerial",
   "updateJob", "createLineItems", "final"}

\* The step is one by which run r leaves processDocument.
Settles(r) == runs[r].pc \in PipelinePcs /\ runs'[r].pc \notin PipelinePcs

\* After the step, createJobFromDocument holds `result` as what
\* processDocument returned to it.  (processDocumentAsync keeps nothing.)
ReturnedTo(r, result) ==
  runs[r].caller = "createJob"
    => runs'[r].pc = "returned" /\ runs'[r].result = Some(result)

\* C1: for an existing document, processDocument never throws, whatever the
\* step at which an error occurs.  It returns the failure result and the
\* document is then "failed" with processingError equal to the message, or
\* it returns success and the document is "completed"; the document is not
\* left in another status once processDocument has returned.
C1_NeverThrows ==
  [][\A r \in RunIds :
       LET d == runs[r].documentId
       IN (Settles(r) /\ d \in DOMAIN docs) =>
            /\ d \in DOMAIN docs'
            /\ \/ /\ docs'[d].processingStatus = "failed"
                  /\ IsSome(docs'[d].processingError)
                  /\ ReturnedTo(r, FailureResult(d, Val(docs'[d].processingError)))
               \/ /\ docs'[d].processingStatus = "completed"
                  /\ runs[r].caller = "createJob"
                       => /\ runs'[r].pc = "returned"
                          /\ Val(runs'[r].result).success]_vars

\* The step is a reprocessDocument of document d.
Reprocesses(d) == \E org \in Orgs : ReprocessDocument(org, d)

\* C2: the processing status follows pending -> processing -> (completed |
\* failed): a document is created "pending", "processing" is entered from
\* "pending", "completed" and "failed" from "processing", and only
\* reprocessDocument returns a document to "pending".
C2_StatusMachine ==
  [][\A d \in DocIds :
       /\ (d \notin DOMAIN docs /\ d \in DOMAIN docs')
            => docs'[d].processingStatus = "pending"
       /\ (d \in DOMAIN docs /\ d \in DOMAIN docs'
             /\ docs'[d].processingStatus # docs[d].processingStatus)
            => \/ <<docs[d].processingStatus, docs'[d].processingStatus>>
                    \in {<<"pending", "processing">>, <<"processing", "completed">>,
                         <<"processing", "failed">>}
               \/ docs'[d].processingStatus = "pending" /\ Reprocesses(d)]_vars

\* The capability answered, with a text that does not parse.
Malformed(resp) == resp.sendOk /\ ParseStatus(resp) # "parsed"

\* C3: whenever the classification response cannot be parsed (no JSON
\* object in it, or a brace-delimited span that is not valid JSON),
\* classifyDocument yields {type: "other"} and the run goes on to the final
\* update: the classification does not fail the document.  (The store
\* accepts the update of the step.)
C3_ClassificationNeverAborts ==
  [][\A r \in RunIds :
       LET d == runs[r].documentId
       IN (runs[r].pc = "classify" /\ d \in DOMAIN docs) =>
            \A resp \in ClassAnswers :
              (/\ Malformed(resp)
               /\ StoreClassification(r, classifyDocument(resp), TRUE, TRUE))
              => /\ classifyDocument(resp) = Returned([type |-> "other"])
                 /\ runs'[r].pc = "final"
                 /\ docs'[d].processingStatus # "failed"]_vars

\* The documented defaults of the pipe-jack and the vent extractor.
PipeDefault ==
  [PipeJackInitial EXCEPT !.confidence = PipeAIFallback.confidence,
                          !.validationNotes = PipeAIFallback.validationNotes]
VentDefault ==
  [VentInitial EXCEPT !.confidence = VentAIFallback.confidence,
                      !.validationNotes = VentAIFallback.validationNotes]

\* What the four sub-extractors are to return for `answers`: the default for
\* a malformed answer, and otherwise what the extractor makes of the answer.
DegradedOutcomes(answers) ==
  [header |-> IF Malformed(answers.header) THEN Returned(HeaderDefault)
              ELSE extractHeaderData(answers.header),
   pipeJacks |-> IF Malformed(answers.pipeJacks) THEN Returned(PipeDefault)
                 ELSE extractPipeJacks(answers.pipeJacks, None),
   vents |-> IF Malformed(answers.vents) THEN Returned(VentDefault)
             ELSE extractVents(answers.vents, None, None),
   materials |-> IF Malformed(answers.materials) THEN Returned(MaterialsDefault)
                 ELSE extractMaterialsAndFinancials(answers.materials)]

\* C4: no extractor propagates malformed capability output as an error.  For
\* every response text that does not parse, the extractor returns its typed
\* default, and the step of the run goes on instead of failing the document.
\* (The other answers are the well-formed baseline, and the store accepts
\* the write of the step.)
C4_MalformedOutputDegrades ==
  [][\A r \in RunIds :
       /\ runs[r].pc = "extractInsurance" =>
            \A answers \in InsuranceAnswers :
              \A first \in Firsts(SubOutcomes(answers)) :
                (/\ \A k \in SubExtractors :
                      answers[k] = Baseline[k] \/ Malformed(answers[k])
                 /\ StoreAnalysis(r, extractInsuranceData(answers, first),
                                  TRUE, TRUE))
                => /\ SubOutcomes(answers) = DegradedOutcomes(answers)
                   /\ runs'[r].pc = "updateJob"
       /\ runs[r].pc = "extractAerial" =>
            \A resp \in AerialAnswers :
              (/\ Malformed(resp)
               /\ StoreAerialReport(
                    r, extractAerialData(resp, SubTypeOf(Val(runs[r].classification))),
                    TRUE, TRUE))
              => /\ runs'[r].extraction =
                      Some(AerialDefault(SubTypeOf(Val(runs[r].classification))))
                 /\ runs'[r].pc = "final"]_vars

\* C5: the insurance extraction is an all-or-nothing join.  When the
\* capability call of any one sub-extractor fails, the extraction step fails
\* as a whole: no extraction is assembled or persisted, and the document
\* ends "failed".  (The store accepts the write of the step, be it the
\* analysis row or the update that records the failure.)
C5_AllOrNothingJoin ==
  [][\A r \in RunIds :
       LET d == runs[r].documentId
       IN (runs[r].pc = "extractInsurance" /\ d \in DOMAIN docs) =>
            \A answers \in InsuranceAnswers :
              \A first \in Firsts(SubOutcomes(answers)) :
                (/\ \E k \in SubExtractors : ~answers[k].sendOk
                 /\ StoreAnalysis(r, extractInsuranceData(answers, first),
                                  TRUE, TRUE))
                => /\ extractInsuranceData(answers, first).threw
                   /\ analyses' = analyses
                   /\ runs'[r].extraction = None
                   /\ docs'[d].processingStatus = "failed"]_vars

\* Run r holds an extraction with the domain defect of C6: an insurance
\* extraction whose totalRCV is missing or 0, or an aerial extraction whose
\* total area is missing or 0.
DomainInvalid(r) ==
  /\ runs[r].pc \in {"updateJob", "createLineItems", "final"}
  /\ \/ /\ BranchOf(Val(runs[r].classification)) = "extractInsurance"
        /\ Falsy(Val(runs[r].extraction).financialSummary, "totalRCV")
     \/ /\ BranchOf(Val(runs[r].classification)) = "extractAerial"
        /\ Falsy(Val(runs[r].extraction), "totalArea")

\* The step of run r is one in which the store rejected a write: either the
\* failure is recorded with the store's message, or the update that records
\* it was rejected as well.
StoreRejected(r) ==
  LET d == runs[r].documentId
  IN \/ /\ docs' = docs
        /\ runs'[r].pc \notin PipelinePcs
        /\ runs[r].caller = "createJob" => runs'[r].pc = "thrown"
     \/ /\ d \in DOMAIN docs'
        /\ docs'[d].processingStatus = "failed"
        /\ docs'[d].processingError \in {Some(ErrDb), Some(ErrRecordMissing)}
        /\ ReturnedTo(r, FailureResult(d, Val(docs'[d].processingError)))

C7_NotFoundWritesNothing ==
  [][\A r \in RunIds :
       LET d == runs[r].documentId
       IN (/\ runs[r].pc = "load"
           /\ d \notin DOMAIN docs
           /\ runs'[r] # runs[r]
           /\ runs'[r].pc # "thrown")
          => /\ UNCHANGED <<docs, jobs, analyses, aerialReports, lineItems>>
             /\ runs'[r].pc \notin PipelinePcs
             /\ ReturnedTo(r, NotFoundResult(d))]_vars

\* processDocument has returned the not-found result for a document that
\* was deleted before the run looked it up.
C7_Witness ==
  \E r \in RunIds :
    /\ runs[r].pc = "returned"
    /\ runs[r].documentId \notin DOMAIN docs
    /\ runs[r].result = Some(NotFoundResult(runs[r].documentId))

\* C8: reprocessDocument sets the status to "pending" and clears both the
\* prior processingError and the prior extractedData: after the reset
\* neither holds a value of the earlier run.
C8_ReprocessClears ==
  [][\A d \in DocIds :
       Reprocesses(d) =>
         /\ docs'[d].processingStatus = "pending"
         /\ docs'[d].processingError = None
         /\ docs'[d].extractedData = None]_vars

\* Number of rows of a table that belong to document d.
RowsOf(table, d) ==
  BagCardinality([row \in {x \in BagToSet(table) : x.documentId = d} |->
                    CopiesIn(row, table)])

\* C9: re-processing replaces the prior results: a document never has a
\* second insurance-analysis row or a second aerial-report row, and no line
\* item is stored twice.
C9_ReprocessIdempotent ==
  /\ \A d \in DocIds : RowsOf(analyses, d) <= 1 /\ RowsOf(aerialReports, d) <= 1
  /\ \A item \in BagToSet(lineItems) : CopiesIn(item, lineItems) = 1

\* processDocument has reported failure to createJobFromDocument.
FailureReported(r) ==
  /\ runs[r].caller = "createJob"
  /\ \/ runs[r].pc = "thrown"
     \/ runs[r].pc = "returned" /\ ~Val(runs[r].result).success

\* C10: whenever processDocument reports failure (returns success = FALSE,
\* or throws), createJobFromDocument leaves the job "draft", marked as
\* requiring manual entry, never "ready", and itself returns.  (The store
\* accepts a job update.)
C10_FailureLeavesDraft ==
  [][\A r \in RunIds :
       (FailureReported(r) /\ runs'[r] # runs[r] /\ jobs' # jobs) =>
         /\ jobs'[runs[r].callerJob].status = "draft"
         /\ jobs'[runs[r].callerJob].customerName
              \in {FailedJobData.customerName, ManualEntryData.customerName}
         /\ runs'[r].pc = "uploadReturned"]_vars

(***************************************************************************)
(* Properties of the server actions (AccessSpec).                          *)
(***************************************************************************)
\* The organization that owns the record a call names, if there is such a
\* record.
OwnerOf(c) ==
  IF c.op \in {"getDocument", "getDocumentDownloadUrl", "deleteDocument",
               "reprocessDocument"}
    THEN IF c.input.id \in DOMAIN docs
           THEN Some(docs[c.input.id].organizationId) ELSE None
  ELSE IF c.op \in {"getJob", "generateEstimate"}
    THEN IF c.input.id \in DOMAIN jobs
           THEN Some(jobs[c.input.id].organizationId) ELSE None
  ELSE IF c.op \in {"getEstimate", "updateEstimateStatus", "deleteEstimate"}
    THEN IF c.input.id \in DOMAIN estimates
           THEN Some(jobs[estimates[c.input.id].jobId].organizationId) ELSE None
  ELSE None

\* The not-found error of an operation.
NotFoundOf(op) ==
  IF op \in {"getJob", "generateEstimate"} THEN ErrJobNotFound
  ELSE IF op \in {"getEstimate", "updateEstimateStatus", "deleteEstimate"}
    THEN ErrEstimateNotFound
  ELSE ErrNotFound

\* Run r does its lookup for the pending createJobFromDocument call, whose
\* caller belongs to another organization than the document.
ProcessesForeign(r) ==
  /\ runs[r].pc = "load"
  /\ runs'[r] # runs[r]
  /\ runs'[r].pc # "thrown"
  /\ runs[r].caller = "createJob"
  /\ call.op = "createJobFromDocument"
  /\ call.input.id = runs[r].documentId
  /\ runs[r].documentId \in DOMAIN docs
  /\ docs[runs[r].documentId].organizationId # call.input.org

\* C11: every lookup of a document, job or estimate is scoped by the
\* caller's organization: an operation (get, download URL, delete,
\* reprocess, process, generate / read / update / delete estimate) that
\* names a record owned by another organization fails with the not-found
\* error, returns no field of the record, and leaves the record and
\* everything derived from it unchanged.
C11_TenantIsolation ==
  [][/\ (/\ call' # call
         /\ IsSome(call'.output)
         /\ IsSome(OwnerOf(call'))
         /\ Val(OwnerOf(call')) # call'.input.org)
          => /\ call'.output = Some(Threw(NotFoundOf(call'.op)))
             /\ UNCHANGED <<docs, jobs, analyses, aerialReports, lineItems,
                            estimates, runs>>
     /\ \A r \in RunIds :
          ProcessesForeign(r)
            => /\ runs'[r].pc = "returned"
               /\ runs'[r].result = Some(NotFoundResult(runs[r].documentId))
    ]_vars

(***************************************************************************)
(* Properties of the extractors and the validator (ToolSpec).              *)
(***************************************************************************)
\* The call of op has settled.
Settled(op) == call.op = op /\ IsSome(call.output)

\* What the settled call returned or threw.
Out == Val(call.output)

\* Number of occurrences of x in a list.
RECURSIVE Count(_, _)
Count(seq, x) ==
  IF seq = <<>> THEN 0
  ELSE (IF Head(seq) = x THEN 1 ELSE 0) + Count(Tail(seq), x)

\* C12: validateInsuranceExtraction returns isValid = true exactly when
\* errors is empty; a missing or zero financialSummary.totalRCV always adds
\* the RCV-missing error, whatever the confidence; the warnings (pipe-jack
\* notes, vent notes, the low-confidence warning below 0.7) are reported
\* and never make isValid false.
C12_ValidIffNoErrors ==
  Settled("validateInsuranceExtraction") =>
    LET e == call.input.extraction
        v == Out.value
        noRCV == "totalRCV" \notin DOMAIN e.financialSummary
                   \/ e.financialSummary.totalRCV = 0
    IN /\ ~Out.threw
       /\ v.isValid <=> (Len(v.errors) = 0)
       /\ noRCV => Count(v.errors, "Missing total RCV value") = 1 /\ ~v.isValid
       /\ ~noRCV => v.isValid
       /\ Len(v.warnings) =
            Len(e.pipeJacks.validationNotes) + Len(e.ventilation.validationNotes)
              + (IF e.confidenceScores.overall < 7000 THEN 1 ELSE 0)

\* A zero RCV with a high confidence and no warning is invalid.
C12_Witness ==
  /\ Settled("validateInsuranceExtraction")
  /\ "totalRCV" \in DOMAIN call.input.extraction.financialSummary
  /\ call.input.extraction.financialSummary.totalRCV = 0
  /\ call.input.extraction.confidenceScores.overall = 9500
  /\ Out.value.warnings = <<>>
  /\ ~Out.value.isValid

\* C13: in every PipeJackResult extractPipeJacks returns, totalCount is the
\* sum of the ten named counters plus the sum of the quantities in pfOther,
\* whatever totalCount the capability reported.
C13_TotalCountRecomputed ==
  (Settled("extractPipeJacks") /\ ~Out.threw) =>
    LET v == Out.value
    IN v.totalCount =
         v.pf3n1 + v.pf14 + v.pf14_4 + v.pf14_5 + v.pf14_6 + v.pf14_8
           + v.pfSplitBoot + v.pfLead + v.pfGooseNeckSmall + v.pfGooseNeckLarge
           + SumQuantity(Val(v.pfOther))

\* The capability reported 99; the counters and the open list add up to 8.
C13_Witness ==
  /\ Settled("extractPipeJacks")
  /\ ParseStatus(call.input.resp) = "parsed"
  /\ "totalCount" \in DOMAIN call.input.resp.body
  /\ call.input.resp.body.totalCount = 99
  /\ ~Out.threw
  /\ Out.value.totalCount = 8
  /\ Val(Out.value.pfOther) # <<>>

\* C14: for every capability response (members omitted, members null, no
\* JSON at all, transport error) extractPipeJacks returns a fully populated
\* result: the ten counters are numbers, pfOther and validationNotes are
\* lists, no member is null or undefined.
C14_FullyPopulated ==
  Settled("extractPipeJacks") =>
    /\ ~Out.threw
    /\ DOMAIN PipeJackInitial \subseteq DOMAIN Out.value
    /\ \A f \in PipeCounters : Out.value[f] \in Nat
    /\ IsSome(Out.value.pfOther)
    /\ Out.value.totalCount \in Nat
    /\ Len(Out.value.validationNotes) >= 0

\* The result object after the capability's answer has been merged in:
\* the confidence and the notes are the capability's.
PipeMerged == Assign(PipeJackInitial, pipeExtractWithAI(call.input.resp))

BelowMinimum == "Total pipe jacks is below expected minimum"
AboveMaximum == "Total pipe jacks exceeds expected maximum"

\* C15: with a roof-area hint A > 0, min = max(2, floor(A/1000)) and
\* max = max(8, ceil(A/300)): a totalCount below min multiplies the
\* capability's confidence by 0.8 and appends exactly one warning; a
\* totalCount above max multiplies it by 0.9 and appends exactly one
\* warning; in between, confidence and notes are the capability's.
C15_ExpectedRangeCheck ==
  (/\ Settled("extractPipeJacks")
   /\ ~Out.threw
   /\ IsSome(call.input.roofArea)
   /\ Val(call.input.roofArea) > 0) =>
    LET A == Val(call.input.roofArea)
        v == Out.value
        min == IF A \div 1000 > 2 THEN A \div 1000 ELSE 2
        ceil == IF A % 300 = 0 THEN A \div 300 ELSE A \div 300 + 1
        max == IF ceil > 8 THEN ceil ELSE 8
    IN /\ v.totalCount < min =>
            /\ 10 * v.confidence = 8 * PipeMerged.confidence
            /\ v.validationNotes = Append(PipeMerged.validationNotes, BelowMinimum)
       /\ v.totalCount > max =>
            /\ 10 * v.confidence = 9 * PipeMerged.confidence
            /\ v.validationNotes = Append(PipeMerged.validationNotes, AboveMaximum)
       /\ (min <= v.totalCount /\ v.totalCount <= max) =>
            /\ v.confidence = PipeMerged.confidence
            /\ v.validationNotes = PipeMerged.validationNotes

\* A total of 1 at roofArea = 2000: confidence 0.9 becomes 0.72, one warning.
C15_Witness ==
  /\ Settled("extractPipeJacks")
  /\ call.input.roofArea = Some(2000)
  /\ ~Out.threw
  /\ Out.value.totalCount = 1
  /\ PipeMerged.confidence = 9000
  /\ Out.value.confidence = 7200
  /\ Out.value.validationNotes = <<BelowMinimum>>

\* C16, as stated: given roofArea = 2000 the expected range is [2, 7], and
\* an extraction whose total count is 8 triggers the upper-bound warning
\* and has its confidence multiplied by 0.9.
C16_RangeAt2000 ==
  (/\ Settled("extractPipeJacks")
   /\ call.input.roofArea = Some(2000)
   /\ ~Out.threw
   /\ Out.value.totalCount = 8) =>
    /\ getExpectedPipeJackRange(2000) = [min |-> 2, max |-> 7]
    /\ Count(Out.value.validationNotes, AboveMaximum) = 1
    /\ 10 * Out.value.confidence = 9 * PipeMerged.confidence

\* C16, amended: given roofArea = 2000 the expected range is [2, 8]; a
\* total count of 8 is inside it, triggers no warning and keeps the
\* capability's confidence; a total count of 9 triggers the upper-bound
\* warning and has its confidence multiplied by 0.9.
C16_RangeAt2000Amended ==
  (/\ Settled("extractPipeJacks")
   /\ call.input.roofArea = Some(2000)
   /\ ~Out.threw) =>
    /\ getExpectedPipeJackRange(2000) = [min |-> 2, max |-> 8]
    /\ Out.value.totalCount = 8 =>
         /\ Count(Out.value.validationNotes, AboveMaximum) = 0
         /\ Out.value.validationNotes = PipeMerged.validationNotes
         /\ Out.value.confidence = PipeMerged.confidence
    /\ Out.value.totalCount = 9 =>
         /\ Count(Out.value.validationNotes, AboveMaximum) = 1
         /\ 10 * Out.value.confidence = 9 * PipeMerged.confidence

\* A total of 8 at roofArea = 2000, confidence 0.9 kept.
C16_Witness ==
  /\ Settled("extractPipeJacks")
  /\ call.input.roofArea = Some(2000)
  /\ ~Out.threw
  /\ Out.value.totalCount = 8
  /\ Out.value.confidence = 9000

\* C17: in every VentResult extractVents returns, totalExhaust is
\* turtle + off-ridge + Broan-4 + Broan-6 + power + whirlybird and nfa is
\* ridge*18 + turtle*50 + Broan-4*28 + Broan-6*50, whatever totals the
\* capability reported.
C17_VentTotalsRecomputed ==
  (Settled("extractVents") /\ ~Out.threw) =>
    LET v == Out.value
    IN /\ v.totalExhaust = v.vsTurtleVent + v.vsOffRidgeVent + v.vsBroan4
                             + v.vsBroan6 + v.vsPowerVent + v.vsWhirlybird
       /\ v.nfa = v.vsRidgeVent * 18 + v.vsTurtleVent * 50 + v.vsBroan4 * 28
                    + v.vsBroan6 * 50

\* The capability reported totalExhaust 77 and nfa 9999; the result has 5
\* and 1230.
C17_Witness ==
  /\ Settled("extractVents")
  /\ ParseStatus(call.input.resp) = "parsed"
  /\ "totalExhaust" \in DOMAIN call.input.resp.body
  /\ call.input.resp.body.totalExhaust = 77
  /\ call.input.resp.body.nfa = 9999
  /\ ~Out.threw
  /\ Out.value.totalExhaust = 5
  /\ Out.value.nfa = 1230

\* The result object after the capability's answer has been merged in.
VentMerged == Assign(VentInitial, ventExtractWithAI(call.input.resp))

Insufficient == "Exhaust ventilation may be insufficient"

\* The ridge-vent check of this call lowers the confidence.
RidgeExceeds ==
  /\ IsSome(call.input.ridgeLength)
  /\ Val(call.input.ridgeLength) > 0
  /\ 10 * VentMerged.vsRidgeVent > 11 * Val(call.input.ridgeLength)

\* C18: with a roof-area hint A > 0, when the computed NFA is below 80% of
\* the required NFA (A/300)*144 exactly one insufficiency warning is
\* appended and this check leaves the confidence unchanged; at or above
\* 80% no insufficiency warning is appended.
C18_NfaInsufficiency ==
  (/\ Settled("extractVents")
   /\ ~Out.threw
   /\ IsSome(call.input.roofArea)
   /\ Val(call.input.roofArea) > 0) =>
    LET A == Val(call.input.roofArea)
        v == Out.value
    IN /\ Count(VentMerged.validationNotes, Insufficient) = 0
       /\ Count(v.validationNotes, Insufficient) =
            (IF 10 * 300 * v.nfa < 8 * 144 * A THEN 1 ELSE 0)
       /\ ~RidgeExceeds => v.confidence = VentMerged.confidence
       /\ RidgeExceeds => 100 * v.confidence = 85 * VentMerged.confidence

\* roofArea 3000, 10 turtle vents, no ridge vent: NFA 500 is below 1152.
C18_Witness ==
  /\ Settled("extractVents")
  /\ call.input.roofArea = Some(3000)
  /\ ~Out.threw
  /\ Out.value.vsRidgeVent = 0
  /\ Out.value.vsTurtleVent = 10
  /\ Out.value.nfa = 500
  /\ Count(Out.value.validationNotes, Insufficient) = 1
  /\ Out.value.confidence = 9000

NoIntake == "No intake ventilation detected - verify soffit vents are included"

\* C19: every VentResult with vsRidgeVent > 0 has isBalanced = true
\* whatever the intake is (vsIntakeVent = 0 with a positive exhaust total
\* included), and no "no intake" verdict overrides it.
C19_RidgeVentBalanced ==
  (Settled("extractVents") /\ ~Out.threw /\ Out.value.vsRidgeVent > 0) =>
    /\ Out.value.isBalanced
    /\ Count(Out.value.validationNotes, NoIntake) = 0

\* C20: for every VentResult with no ridge vent and both the intake
\* extracted from the document and the exhaust total positive, isBalanced
\* is true exactly when 0.5 <= intake/exhaust <= 2.0.
C20_RatioBalance ==
  (/\ Settled("extractVents")
   /\ ~Out.threw
   /\ Out.value.vsRidgeVent = 0
   /\ Out.value.vsIntakeVent > 0
   /\ Out.value.totalExhaust > 0) =>
    (Out.value.isBalanced <=>
       /\ 2 * Out.value.vsIntakeVent >= Out.value.totalExhaust
       /\ Out.value.vsIntakeVent <= 2 * Out.value.totalExhaust)

(***************************************************************************)
(* Properties of the pricing calculator (PricingSpec).                     *)
(***************************************************************************)
\* The scores of the products of a catalog for an item, and 0.
ScoresOf(item, products) ==
  {matchScore(item, products[k]) : k \in 1..Len(products)} \cup {0}

\* C21: findBestProductMatch returns a catalog product with the highest
\* score (category +2, subcategory +3, +1 per description word longer than
\* 2 characters contained in the product name, +5 for the manufacturer SKU
\* in the description), and returns it exactly when that highest score is
\* at least 3; an item whose best product shares only its category (score
\* 2) has no match.
C21_HighestScoreMatch ==
  Settled("findBestProductMatch") =>
    LET item == call.input.item
        products == call.input.products
        best == Max(ScoresOf(item, products))
    IN /\ IsSome(Out) <=> best >= 3
       /\ IsSome(Out) =>
            \E k \in 1..Len(products) :
               /\ products[k] = Val(Out)
               /\ matchScore(item, products[k]) = best
       /\ best = 2 => Out = None
       /\ (item.id = "li-1" /\ PipeFlashing \in {products[k] : k \in 1..Len(products)})
            => Out = Some(PipeFlashing) /\ best = 7

\* "roof vent" in category pipe_jack shares only the category with the
\* pipe flashing (score 2) and is not matched, while "Roof  boot" is
\* matched to the lead boot with a score of 3.
C21_Witness ==
  /\ Settled("findBestProductMatch")
  /\ call.input.products = <<LeadBoot, PipeFlashing>>
  /\ \/ /\ call.input.item.id = "li-2"
        /\ Max(ScoresOf(call.input.item, call.input.products)) = 2
        /\ Out = None
     \/ /\ call.input.item.id = "li-3"
        /\ Max(ScoresOf(call.input.item, call.input.products)) = 3
        /\ Out = Some(LeadBoot)

\* The price a product stores for a supplier.
StoredPrice(product, name) ==
  CASE name = "beacon" -> product.beaconPrice
    [] name = "srs" -> product.srsPrice
    [] name = "abc" -> product.abcPrice
    [] name = "gulf_eagle" -> product.gulfEaglePrice
    [] OTHER -> None

\* The suppliers with a non-null price for the product that are enabled.
Eligible(product, enabledSuppliers) ==
  {n \in enabledSuppliers : IsSome(StoredPrice(product, n))}

\* C22: the price getBestPrice selects comes from a supplier with a
\* non-null price for the product that is in the enabled-supplier set; a
\* preferredSupplier naming such a supplier is selected even when a cheaper
\* candidate exists; otherwise (preference "lowest", unset, or not a
\* candidate) the selected supplier has the minimum price among the
\* candidates.
C22_SelectedSupplier ==
  Settled("getBestPrice") =>
    LET product == call.input.product
        preference == call.input.preference
        eligible == Eligible(product, call.input.enabledSuppliers)
    IN /\ IsSome(Out) =>
            /\ Val(Out).supplier \in eligible
            /\ Val(Out).unitPrice = Val(StoredPrice(product, Val(Out).supplier))
       /\ preference \in eligible =>
            IsSome(Out) /\ Val(Out).supplier = preference
       /\ (preference \notin eligible /\ IsSome(Out)) =>
            \A n \in eligible :
               Val(Out).unitPrice <= Val(StoredPrice(product, n))

\* The line items of the settled call of calculateEstimate that are
\* materials, in their order, and those that are labor.
MaterialInputs == SelectSeq(call.input.lineItems, LAMBDA i : ~isLaborItem(i))
LaborInputs == SelectSeq(call.input.lineItems, isLaborItem)

\* The supplier names of the organization that are enabled.
EnabledOf(db, org) ==
  {c.supplier : c \in {x \in db.configs : x.organizationId = org /\ x.isEnabled}}

\* The material item has a product match none of whose prices is eligible.
NoEligibleSupplier(item, db, org) ==
  LET match == findBestProductMatch(item, SelectSeq(db.products,
                                                    LAMBDA p : p.isActive))
  IN IsSome(match) /\ Eligible(Val(match), EnabledOf(db, org)) = {}

\* C23: every priced item of an EstimateResult with matched = true carries
\* a product reference, a unit price, a total price and a supplier name; a
\* material item whose product match has no eligible supplier is reported
\* with matched = false and with neither unit price nor total price.
C23_MatchedItemsArePriced ==
  Settled("calculateEstimate") =>
    /\ \A k \in 1..Len(Out.items) :
          Out.items[k].matched =>
            {"productId", "unitPrice", "totalPrice", "supplier"}
              \subseteq DOMAIN Out.items[k]
    /\ \A k \in 1..Len(MaterialInputs) :
          NoEligibleSupplier(MaterialInputs[k], call.input.db,
                             call.input.organizationId)
            => /\ ~Out.items[k].matched
               /\ "unitPrice" \notin DOMAIN Out.items[k]
               /\ "totalPrice" \notin DOMAIN Out.items[k]

\* The sum of a list of numbers, and of f over a list.
RECURSIVE SumSeq(_)
SumSeq(numbers) ==
  IF numbers = <<>> THEN 0 ELSE Head(numbers) + SumSeq(Tail(numbers))
SumOver(seq, f(_)) == SumSeq([k \in 1..Len(seq) |-> f(seq[k])])

IdsOf(seq) == [k \in 1..Len(seq) |-> seq[k].id]

\* C24: calculateEstimate returns profit = (sum of RCV over all line items)
\* - (totalMaterialCost + totalLaborCost); totalLaborCost is the sum over
\* the labor items of RCV * (1 - laborMarkup); totalMaterialCost is the sum
\* over the material items of their total price, an unmatched material item
\* contributing 60% of its RCV; every input line item appears exactly once
\* in the returned items.
C24_ProfitAndTotals ==
  Settled("calculateEstimate") =>
    LET markup == IF "laborMarkup" \in DOMAIN call.input.options
                    THEN call.input.options.laborMarkup ELSE 35
        rcv(i) == IF IsSome(i.rcv) THEN Val(i.rcv) ELSE 0
        cost(i) == (rcv(i) * (100 - markup)) \div 100
        price(p) == IF "totalPrice" \in DOMAIN p THEN p.totalPrice ELSE 0
        materials == SubSeq(Out.items, 1, Len(MaterialInputs))
    IN /\ Out.profit = SumOver(call.input.lineItems, rcv)
                         - (Out.totalMaterialCost + Out.totalLaborCost)
       /\ Out.totalLaborCost = SumOver(LaborInputs, cost)
       /\ Out.totalMaterialCost = SumOver(materials, price)
       /\ \A k \in 1..Len(materials) :
             /\ materials[k].id = MaterialInputs[k].id
             /\ ~materials[k].matched =>
                  price(materials[k]) = (rcv(MaterialInputs[k]) * 60) \div 100
       /\ Len(Out.items) = Len(call.input.lineItems)
       /\ \A i \in ProbeItems :
             Count(IdsOf(Out.items), i.id)
               = Count(IdsOf(call.input.lineItems), i.id)

\* An unmatched gutter guard of $100 and a removal of $900 at the default
\* markup: material cost $60, labor cost $585, profit $355.
C24_Witness ==
  /\ Settled("calculateEstimate")
  /\ IdsOf(call.input.lineItems) = <<"li-6", "li-5">>
  /\ "laborMarkup" \notin DOMAIN call.input.options
  /\ IdsOf(Out.items) = <<"li-5", "li-6">>
  /\ ~Out.items[1].matched
  /\ Out.totalMaterialCost = 6000
  /\ Out.totalLaborCost = 58500
  /\ Out.profit = 35500

\* The priced items of the settled call that carry the supplier name s.
Carrying(s) ==
  SelectSeq(Out.items, LAMBDA i : "supplier" \in DOMAIN i /\ i.supplier = s)

\* C25: the supplier breakdown of an EstimateResult holds, per supplier
\* name, the count and the summed total price of every priced item carrying
\* that supplier, the labor items in a bucket "labor": with at least one
\* labor item in the input, supplierBreakdown["labor"] exists, its count is
\* the number of labor items and its total is totalLaborCost.
C25_SupplierBreakdown ==
  Settled("calculateEstimate") =>
    LET price(p) == IF "totalPrice" \in DOMAIN p THEN p.totalPrice ELSE 0
    IN /\ \A k \in 1..Len(Out.items) :
             "supplier" \in DOMAIN Out.items[k] =>
               /\ Out.items[k].supplier \in DOMAIN Out.supplierBreakdown
               /\ Out.supplierBreakdown[Out.items[k].supplier]
                    = [count |-> Len(Carrying(Out.items[k].supplier)),
                       total |-> SumOver(Carrying(Out.items[k].supplier), price)]
       /\ LaborInputs # <<>> =>
            /\ "labor" \in DOMAIN Out.supplierBreakdown
            /\ Out.supplierBreakdown["labor"]
                 = [count |-> Len(LaborInputs), total |-> Out.totalLaborCost]

(***************************************************************************)
(* Properties of validateAgainstAerial (ToolSpec).                         *)
(***************************************************************************)
MayBeLow == "pipe jacks for structures may be low"

\* C27: validateAgainstAerial appends one warning and multiplies the
\* confidence by 0.85 exactly when totalCount < 2 * (number of aerial
\* structures) and otherwise returns the result unchanged; the penalties
\* compound: a result the roof-area check penalised (x0.8 below the range,
\* x0.9 above it) that also fails the aerial check has the confidence of
\* the capability times both factors and carries both warnings.
C27_AerialCheckCompounds ==
  (Settled("validateAgainstAerial") /\ ~Out.threw) =>
    LET before == extractPipeJacks(call.input.resp, call.input.roofArea).value
        after == Out.value
        low == before.totalCount < 2 * Len(call.input.aerialData.structures)
        body == call.input.resp.body
        area == call.input.roofArea
        below == Count(before.validationNotes, BelowMinimum) = 1
        above == Count(before.validationNotes, AboveMaximum) = 1
    IN /\ low => /\ after.validationNotes = Append(before.validationNotes, MayBeLow)
                 /\ after.confidence * 100 = before.confidence * 85
                 /\ [after EXCEPT !.validationNotes = <<>>, !.confidence = 0]
                      = [before EXCEPT !.validationNotes = <<>>, !.confidence = 0]
       /\ ~low => after = before
       /\ (/\ low /\ ParseStatus(call.input.resp) = "parsed"
           /\ "confidence" \in DOMAIN body
           /\ IsSome(area) /\ Val(area) # 0) =>
            /\ below => after.confidence * 1000 = body.confidence * 8 * 85
            /\ above => after.confidence * 1000 = body.confidence * 9 * 85
            /\ (below \/ above) =>
                  /\ Len(after.validationNotes)
                       = Len(ObjOr(body, "validationNotes", <<>>)) + 2
                  /\ after.validationNotes[Len(after.validationNotes)] = MayBeLow
                  /\ after.validationNotes[Len(after.validationNotes) - 1]
                       \in {BelowMinimum, AboveMaximum}

\* Nine pipe jacks reported with confidence 0.8 for a roof of 2000 sq ft
\* with five structures: above the range [2, 8] and below 10, so the
\* confidence is 0.8 * 0.9 * 0.85 = 0.612 and both warnings are carried.
C27_Witness ==
  /\ Settled("validateAgainstAerial")
  /\ ~Out.threw
  /\ call.input.roofArea = Some(2000)
  /\ Len(call.input.aerialData.structures) = 5
  /\ Out.value.totalCount = 9
  /\ Out.value.confidence = 6120
  /\ Out.value.validationNotes = <<AboveMaximum, MayBeLow>>

(***************************************************************************)
(* Properties of the pipeline: partial progress, interleaved runs, stale   *)
(* values, atomicity of the insurance persistence (Spec).                  *)
(***************************************************************************)
\* The positions of a run after the classification has been stored.
AfterClassification ==
  {"extractInsurance", "extractAerial", "updateJob", "createLineItems"}

\* The step is one by which run r, at the final update, fails.  (A run
\* called by processDocumentAsync keeps no result to tell by.)
FailsAtFinal(r) ==
  /\ runs[r].pc = "final"
  /\ runs[r].caller = "createJob"
  /\ \/ runs'[r].pc = "thrown"
     \/ runs'[r].pc = "returned" /\ ~Val(runs'[r].result).success

\* The document row holds the OCR result o.
HoldsOcr(row, o) ==
  /\ row.ocrText = Some(o.text)
  /\ row.ocrProvider = Some(o.provider)
  /\ row.ocrConfidence = Some(o.confidence)

\* The document row holds the classification c.
HoldsClassification(row, c) ==
  /\ row.type = c.type
  /\ row.subType = (IF "subType" \in DOMAIN c THEN c.subType ELSE None)

\* C26: partial progress survives a later failure.  The OCR text, provider
\* and confidence are stored before classification starts and the
\* classified type and subtype before extraction starts: a run that fails
\* during classification leaves the document "failed" holding that run's
\* OCR fields, and a run that fails during extraction or persistence
\* leaves it "failed" holding the OCR fields and the type and subtype that
\* run classified.
C26_PartialProgressSurvives ==
  [][\A r \in RunIds :
       LET d == runs[r].documentId
       IN /\ (runs[r].pc = "ocr" /\ runs'[r].pc = "classify")
               => HoldsOcr(docs'[d], Val(runs'[r].ocrResult))
          /\ (runs[r].pc = "classify" /\ runs'[r].pc \in AfterClassification)
               => HoldsClassification(docs'[d], Val(runs'[r].classification))
          /\ (runs[r].pc = "classify" /\ Settles(r)) =>
               /\ d \in DOMAIN docs'
               /\ docs'[d].processingStatus = "failed"
               /\ HoldsOcr(docs'[d], Val(runs[r].ocrResult))
          /\ ((runs[r].pc \in AfterClassification /\ Settles(r))
                \/ FailsAtFinal(r)) =>
               /\ d \in DOMAIN docs'
               /\ docs'[d].processingStatus = "failed"
               /\ HoldsOcr(docs'[d], Val(runs[r].ocrResult))
               /\ HoldsClassification(docs'[d], Val(runs[r].classification))]_vars

\* C28: under every interleaving of the runs on a document, reprocessing
\* while a run is in flight included, the stored state of the document is
\* that of one run: a "completed" document has no processingError and
\* holds extracted data, a "failed" document holds a processingError and
\* no extracted data of another run.
C28_SingleRunState ==
  \A d \in DOMAIN docs :
     /\ docs[d].processingStatus = "completed"
          => docs[d].processingError = None /\ IsSome(docs[d].extractedData)
     /\ docs[d].processingStatus = "failed"
          => IsSome(docs[d].processingError) /\ docs[d].extractedData = None

\* The step is one by which run r completes its document.
Completes(r) ==
  /\ runs[r].pc = "final"
  /\ Settles(r)
  /\ runs[r].documentId \in DOMAIN docs'
  /\ docs'[runs[r].documentId].processingStatus = "completed"
  /\ docs'[runs[r].documentId].extractedData = runs[r].extraction
  /\ runs[r].caller = "createJob"
       => runs'[r].pc = "returned" /\ Val(runs'[r].result).success

\* C29: after a run that ends "completed", the stored validationErrors are
\* those of that run: absent when its validation produced no errors, also
\* when an earlier run of the document had stored validation errors.
C29_ValidationErrorsOfThisRun ==
  [][\A r \in RunIds :
       Completes(r) =>
         docs'[runs[r].documentId].validationErrors
           = (IF Len(Val(runs[r].validation).errors) > 0
                THEN runs[r].validation ELSE None)]_vars

\* The job holds the financial rollup of the extraction.
HoldsRollup(job, extraction) ==
  /\ DOMAIN JobRollup(extraction) # {}
  /\ \A f \in DOMAIN JobRollup(extraction) : job[f] = JobRollup(extraction)[f]

\* C30: the persistence of an insurance extraction is atomic with respect
\* to the outcome of the run: when a run ends with the document "failed"
\* (the job update or the line-item insert failing after the analysis
\* record was created), none of that run's analysis record, job rollup and
\* line items is stored.
C30_InsurancePersistenceAtomic ==
  [][\A r \in RunIds :
       ((runs[r].pc \in {"updateJob", "createLineItems"} /\ Settles(r))
          \/ (FailsAtFinal(r)
                /\ BranchOf(Val(runs[r].classification)) = "extractInsurance")) =>
         LET e == Val(runs[r].extraction)
             j == Val(runs[r].document).jobId
         IN /\ AnalysisRow(j, runs[r].documentId, e) \notin BagToSet(analyses')
            /\ j \in DOMAIN jobs' => ~HoldsRollup(jobs'[j], e)
            /\ \A k \in 1..Len(e.lineItems) :
                  LineItemRow(j, e.lineItems[k]) \notin BagToSet(lineItems')]_vars

====
